---- MODULE Spec2Model ----
(***************************************************************************)
(* Model of src/target/imxrt.c: the i.MXRT10xx target driver of Black      *)
(* Magic Debug.  The driver runs on the debugger host and drives the       *)
(* FlexSPI1 controller of the target through remote memory transactions.   *)
(* Every remote transaction is one step of the model; the position of the  *)
(* (single) driver thread is pc, with a stack of return positions.         *)
(***************************************************************************)
EXTENDS Integers, Sequences, FiniteSets, TLC

(***************************************************************************)
(* Bounds of the model (not program constants).                            *)
(***************************************************************************)
MaxSfdpReads == 1
MaxXferCalls == 1

(***************************************************************************)
(* Program constants (#defines of imxrt.c).                                *)
(***************************************************************************)
IMXRT_PART_ID == 2188
IMXRT_OCRAM1_BASE == 539492352
IMXRT_OCRAM1_SIZE == 524288
IMXRT_OCRAM2_BASE == 538968064
IMXRT_OCRAM2_SIZE == 524288
IMXRT_FLEXSPI_BASE == 1610612736
IMXRT_FLEXSPI1_MOD_CTRL0_SUSPEND == 2
IMXRT_FLEXSPI1_INT_PRG_CMD_DONE == 1
IMXRT_FLEXSPI1_INT_READ_FIFO_FULL == 32
IMXRT_FLEXSPI1_INT_WRITE_FIFO_EMPTY == 64
IMXRT_FLEXSPI1_LUT_KEY_VALUE == 1525701360
IMXRT_FLEXSPI1_LUT_CTRL_LOCK == 1
IMXRT_FLEXSPI1_LUT_CTRL_UNLOCK == 2
IMXRT_FLEXSPI1_CTRL1_CAS_MASK == 30720
IMXRT_FLEXSPI1_CTRL1_CAS_SHIFT == 11
IMXRT_FLEXSPI1_PRG_LUT_INDEX_0 == 0
IMXRT_FLEXSPI1_PRG_RUN == 1
IMXRT_FLEXSPI1_PRG_FIFO_CTRL_CLR == 1
IMXRT_FLEXSPI_LUT_MODE_SERIAL == 0
IMXRT_FLEXSPI_LUT_OP_STOP == 0
IMXRT_FLEXSPI_LUT_OP_COMMAND == 1
IMXRT_FLEXSPI_LUT_OP_CADDR == 3
IMXRT_FLEXSPI_LUT_OP_RADDR == 2
IMXRT_FLEXSPI_LUT_OP_DUMMY_CYCLES == 12
IMXRT_FLEXSPI_LUT_OP_READ == 9
IMXRT_FLEXSPI_LUT_OP_WRITE == 8
IMXRT_SPI_FLASH_OPCODE_MASK == 255
IMXRT_SPI_FLASH_DUMMY_MASK == 65280
IMXRT_SPI_FLASH_DUMMY_SHIFT == 8
IMXRT_SPI_FLASH_OPCODE_MODE_MASK == 65536
IMXRT_SPI_FLASH_OPCODE_ONLY == 0
IMXRT_SPI_FLASH_OPCODE_3B_ADDR == 65536
IMXRT_SPI_FLASH_DATA_IN == 0
IMXRT_SPI_FLASH_DATA_OUT == 131072
SPI_FLASH_OPCODE_SECTOR_ERASE == 32
SPI_FLASH_STATUS_BUSY == 1
SPI_FLASH_STATUS_WRITE_ENABLED == 2
LutSlots == 8
ReadFifoWindow == 128
WordBits == 32

(***************************************************************************)
(* Unsigned machine arithmetic.  Register values are naturals; the values  *)
(* the model draws and computes stay below 2^31, so no operation below     *)
(* wraps, and the one operation of the driver that can leave the width of  *)
(* unsigned int (the shift in imxrt_probe) is modelled by ShiftLeftOne.    *)
(***************************************************************************)
RECURSIVE Pow2(_)
Pow2(n) == IF n = 0 THEN 1 ELSE 2 * Pow2(n - 1)

RECURSIVE BitAnd(_, _)
BitAnd(a, b) ==
    IF a = 0 \/ b = 0 THEN 0
    ELSE ((a % 2) * (b % 2)) + 2 * BitAnd(a \div 2, b \div 2)

RECURSIVE BitOr(_, _)
BitOr(a, b) ==
    IF a = 0 THEN b
    ELSE IF b = 0 THEN a
    ELSE (IF (a % 2) + (b % 2) > 0 THEN 1 ELSE 0) + 2 * BitOr(a \div 2, b \div 2)

(* a & ~b *)
RECURSIVE BitAndNot(_, _)
BitAndNot(a, b) ==
    IF a = 0 THEN 0
    ELSE IF b = 0 THEN a
    ELSE ((a % 2) * (1 - (b % 2))) + 2 * BitAndNot(a \div 2, b \div 2)

U8(x) == x % 256
Shl(a, n) == a * Pow2(n)
Shr(a, n) == a \div Pow2(n)

(***************************************************************************)
(* Macros of imxrt.c.                                                      *)
(***************************************************************************)
IMXRT_FLEXSPI1_PRG_LENGTH(x) == BitAnd(x, 65535)
IMXRT_FLEXSPI1_PRG_FIFO_CTRL_WATERMARK(x) ==
    Shl(BitAnd(Shr(x + 7, 3) - 1, 15), 2)
IMXRT_FLEXSPI_LUT_OPCODE(x) == Shl(BitAnd(x, 63), 2)
IMXRT_SPI_FLASH_OPCODE(x) == BitAnd(x, IMXRT_SPI_FLASH_OPCODE_MASK)
IMXRT_SPI_FLASH_DUMMY_LEN(x) ==
    BitAnd(Shl(x, IMXRT_SPI_FLASH_DUMMY_SHIFT), IMXRT_SPI_FLASH_DUMMY_MASK)

SPI_FLASH_CMD_WRITE_ENABLE ==
    BitOr(BitOr(IMXRT_SPI_FLASH_OPCODE_ONLY, IMXRT_SPI_FLASH_DUMMY_LEN(0)),
          IMXRT_SPI_FLASH_OPCODE(6))
SPI_FLASH_CMD_CHIP_ERASE ==
    BitOr(BitOr(IMXRT_SPI_FLASH_OPCODE_ONLY, IMXRT_SPI_FLASH_DUMMY_LEN(0)),
          IMXRT_SPI_FLASH_OPCODE(96))
SPI_FLASH_CMD_READ_STATUS ==
    BitOr(BitOr(IMXRT_SPI_FLASH_OPCODE_ONLY, IMXRT_SPI_FLASH_DATA_IN),
          BitOr(IMXRT_SPI_FLASH_DUMMY_LEN(0), IMXRT_SPI_FLASH_OPCODE(5)))
SPI_FLASH_CMD_READ_JEDEC_ID ==
    BitOr(BitOr(IMXRT_SPI_FLASH_OPCODE_ONLY, IMXRT_SPI_FLASH_DATA_IN),
          BitOr(IMXRT_SPI_FLASH_DUMMY_LEN(0), IMXRT_SPI_FLASH_OPCODE(159)))
SPI_FLASH_CMD_READ_SFDP ==
    BitOr(BitOr(IMXRT_SPI_FLASH_OPCODE_3B_ADDR, IMXRT_SPI_FLASH_DATA_IN),
          BitOr(IMXRT_SPI_FLASH_DUMMY_LEN(8), IMXRT_SPI_FLASH_OPCODE(90)))

(***************************************************************************)
(* imxrt_boot_src_e and imxrt_boot_source().                               *)
(***************************************************************************)
imxrt_boot_src_e ==
    {"boot_spi_flash_nor", "boot_sd_card", "boot_emmc", "boot_slc_nand",
     "boot_parallel_nor", "boot_spi_flash_nand"}

(* imxrt_boot_source() without the mask of the low nibble. *)
imxrt_boot_source_no_mask(boot_cfg) ==
    LET boot_src == U8(boot_cfg)
    IN  IF boot_src = 0 THEN "boot_spi_flash_nor"
        ELSE IF BitAnd(boot_src, 192) = 64 THEN "boot_sd_card"
        ELSE IF BitAnd(boot_src, 192) = 128 THEN "boot_emmc"
        ELSE IF BitAnd(boot_src, 224) = 32 THEN "boot_slc_nand"
        ELSE IF boot_src = 16 THEN "boot_parallel_nor"
        ELSE "boot_spi_flash_nand"

imxrt_boot_source(boot_cfg) ==
    LET boot_src == U8(BitAnd(boot_cfg, 240))
    IN  IF boot_src = 0 THEN "boot_spi_flash_nor"
        ELSE IF BitAnd(boot_src, 192) = 64 THEN "boot_sd_card"
        ELSE IF BitAnd(boot_src, 192) = 128 THEN "boot_emmc"
        ELSE IF BitAnd(boot_src, 224) = 32 THEN "boot_slc_nand"
        ELSE IF boot_src = 16 THEN "boot_parallel_nor"
        ELSE "boot_spi_flash_nand"

(* The five checks of imxrt_boot_source() in source order, each with the   *)
(* boot source it returns, and the evaluation of the checks in a given     *)
(* order: the first check that holds decides, and when none holds the      *)
(* result is the final return of the function.                             *)
(* The SLC NAND check testing bit 5 alone. *)
BootChecks_loose_mask(boot_src) ==
    <<[holds |-> boot_src = 0, source |-> "boot_spi_flash_nor"],
      [holds |-> BitAnd(boot_src, 192) = 64, source |-> "boot_sd_card"],
      [holds |-> BitAnd(boot_src, 192) = 128, source |-> "boot_emmc"],
      [holds |-> BitAnd(boot_src, 32) = 32, source |-> "boot_slc_nand"],
      [holds |-> boot_src = 16, source |-> "boot_parallel_nor"]>>

BootChecks(boot_src) ==
    <<[holds |-> boot_src = 0, source |-> "boot_spi_flash_nor"],
      [holds |-> BitAnd(boot_src, 192) = 64, source |-> "boot_sd_card"],
      [holds |-> BitAnd(boot_src, 192) = 128, source |-> "boot_emmc"],
      [holds |-> BitAnd(boot_src, 224) = 32, source |-> "boot_slc_nand"],
      [holds |-> boot_src = 16, source |-> "boot_parallel_nor"]>>

BootCheckOrders == {order \in [1..5 -> 1..5] : \A i, j \in 1..5 : order[i] = order[j] => i = j}
SourceOrder == [i \in 1..5 |-> i]

imxrt_boot_source_in_order(boot_cfg, order) ==
    LET checks == BootChecks(U8(BitAnd(boot_cfg, 240)))
        hits == {i \in 1..5 : checks[order[i]].holds}
    IN  IF hits = {} THEN "boot_spi_flash_nand"
        ELSE checks[order[CHOOSE i \in hits : \A j \in hits : i <= j]].source

(***************************************************************************)
(* State.                                                                  *)
(*   reg      the 32-bit registers of the target the driver touches        *)
(*   lut      the 8 instruction slots of LUT sequence 0 (IMXRT_FLEXSPI1_   *)
(*            LUT_BASE), each an imxrt_flexspi_lut_insn_s                  *)
(*   rdFifo   bytes in the IP read FIFO, wrFifo bytes in the IP write FIFO *)
(*   running  an IP command has been triggered and has not finished        *)
(*   priv     imxrt_priv_s, target the fields of target_s the driver sets  *)
(*   pc/stack position of the driver thread, loc its arguments and locals  *)
(*   bus      the last two remote writes, hist bookkeeping of the calls    *)
(***************************************************************************)
VARIABLES reg, lut, rdFifo, wrFifo, running, priv, target, pc, stack, loc,
          bus, hist

vars == <<reg, lut, rdFifo, wrFifo, running, priv, target, pc, stack, loc,
          bus, hist>>

Insn(op, operand) ==
    [value |-> operand,
     opcode_mode |-> BitOr(IMXRT_FLEXSPI_LUT_OPCODE(op), IMXRT_FLEXSPI_LUT_MODE_SERIAL)]
StopInsn == [value |-> 0, opcode_mode |-> 0]
EmptySequence == [i \in 1..LutSlots |-> StopInsn]

(* Values the registers may hold when the debugger attaches. *)
ModCtrlValues == {0, 2, 2147418162}
LutCtrlValues == {0, 1, 2}
IntValues == {0, 97}
ColumnAddressBits == {0, 3}
BootCfgValues == {0, 16, 32, 64, 128, 192}
PartIds == {IMXRT_PART_ID, 1041}
FirmwareLuts ==
    {[i \in 1..LutSlots |->
        IF i = 1 THEN [value |-> 235, opcode_mode |-> 4]
        ELSE IF i = 2 THEN [value |-> 24, opcode_mode |-> 10]
        ELSE IF i = 3 THEN [value |-> 6, opcode_mode |-> 50]
        ELSE IF i = 4 THEN [value |-> 4, opcode_mode |-> 38]
        ELSE StopInsn],
     [i \in 1..LutSlots |-> [value |-> 255, opcode_mode |-> 255]]}

ZeroPriv ==
    [boot_source |-> "boot_spi_flash_nor", flexspi_module_state |-> 0,
     flexspi_lut_state |-> 0, flexspi_lut_seq |-> EmptySequence]

NoLocals ==
    [command |-> 0, address |-> 0, length |-> 0, data |-> <<>>, buffer |-> <<>>,
     tmp |-> 0, status |-> 0, spi_parameters |-> <<>>, sfdp_reads |-> 0,
     sfdp_ok |-> FALSE, capacity |-> 0]

NoHist ==
    [ep |-> "none", returned |-> TRUE, ret |-> FALSE, enters |-> 0, exits |-> 0,
     entryMod |-> 0, entryLut |-> 0, entryTable |-> EmptySequence,
     xfer |-> "none", programs |-> 0, restores |-> 0, tableBefore |-> EmptySequence,
     weIssued |-> 0, ceIssued |-> 0, lastStatus |-> -1, statusAtCE |-> -1,
     polled |-> FALSE, requested |-> FALSE, fallback |-> -1, sfdp |-> "none",
     sfdp_params |-> <<>>, flash_id |-> <<>>,
     firstStatus |-> -1, guardFresh |-> FALSE, guardClosing |-> FALSE,
     guardMod |-> 0, guardLut |-> 0,
     firmwareTable |-> EmptySequence, xferCalls |-> 0,
     nest |-> 0, nestMod |-> 0, nestLut |-> 0, offset |-> 0, lutAtEnter |-> 0,
     enterRet |-> FALSE, steps |-> <<>>, intAtEnter |-> 0]

NoWrite == <<"none", 0>>

Init ==
    /\ \E m \in ModCtrlValues, i \in IntValues, l \in LutCtrlValues,
          c \in ColumnAddressBits, b \in BootCfgValues :
          reg = [MOD_CTRL0 |-> m, INT |-> i, LUT_KEY |-> IMXRT_FLEXSPI1_LUT_KEY_VALUE,
                 LUT_CTRL |-> l,
                 CTRL1 |-> Shl(c, IMXRT_FLEXSPI1_CTRL1_CAS_SHIFT),
                 PRG_CTRL0 |-> 0, PRG_CTRL1 |-> 0,
                 PRG_READ_FIFO_CTRL |-> 0, PRG_WRITE_FIFO_CTRL |-> 0,
                 SRC_BOOT_MODE1 |-> b]
    /\ lut \in FirmwareLuts
    /\ rdFifo = <<>>
    /\ wrFifo = <<>>
    /\ running = FALSE
    /\ priv = ZeroPriv
    /\ \E p \in PartIds :
          target = [part_id |-> p, driver |-> "", inhibit_nrst |-> FALSE,
                    target_storage |-> FALSE, mass_erase |-> FALSE,
                    enter_flash_mode |-> FALSE, exit_flash_mode |-> FALSE,
                    ram |-> <<>>, flash |-> <<>>]
    /\ pc = "idle"
    /\ stack = <<>>
    /\ loc = NoLocals
    /\ bus = [last |-> NoWrite, prev |-> NoWrite]
    /\ hist = [NoHist EXCEPT !.firmwareTable = lut]

(***************************************************************************)
(* Remote memory transactions and control transfer.                        *)
(***************************************************************************)
Goto(l) == pc' = l /\ stack' = stack
CallTo(f, l) == pc' = f /\ stack' = <<l>> \o stack
Return == pc' = Head(stack) /\ stack' = Tail(stack)

BusWrite(r, v) == bus' = [last |-> <<r, v>>, prev |-> bus.last]

(* target_mem_write32 to an ordinary register *)
target_mem_write32(r, v) ==
    /\ reg' = [reg EXCEPT ![r] = v]
    /\ BusWrite(r, v)

(* target_mem_write32 to IMXRT_FLEXSPI1_INT: the flags written as 1 clear *)
target_mem_write32_INT(v) ==
    /\ reg' = [reg EXCEPT !["INT"] = BitAndNot(@, v)]
    /\ BusWrite("INT", v)

(***************************************************************************)
(* imxrt_enter_flash_mode(), lines 291-314.                                *)
(***************************************************************************)
(* The suspend test looking at bit 0, the module-disable flag. *)
Suspended_bit_0(module_state) == BitAnd(module_state, 1) # 0

Suspended(module_state) ==
    BitAnd(module_state, IMXRT_FLEXSPI1_MOD_CTRL0_SUSPEND) # 0

(* The suspend flag left set in the value written back. *)
ClearSuspend_keep(module_state) == module_state

ClearSuspend(module_state) ==
    BitAndNot(module_state, IMXRT_FLEXSPI1_MOD_CTRL0_SUSPEND)

imxrt_enter_flash_mode ==
    \/ /\ pc = "enter:read_mod_ctrl0"
       /\ priv' = [priv EXCEPT !.flexspi_module_state = reg["MOD_CTRL0"]]
       /\ IF Suspended(reg["MOD_CTRL0"])
          THEN Goto("enter:write_mod_ctrl0")
          ELSE Goto("enter:read_int")
       /\ UNCHANGED <<reg, lut, rdFifo, wrFifo, running, target, loc, bus, hist>>
    \/ /\ pc = "enter:write_mod_ctrl0"
       /\ target_mem_write32("MOD_CTRL0", ClearSuspend(priv.flexspi_module_state))
       /\ Goto("enter:read_int")
       /\ UNCHANGED <<lut, rdFifo, wrFifo, running, priv, target, loc, hist>>
    \/ /\ pc = "enter:read_int"
       /\ loc' = [loc EXCEPT !.tmp = reg["INT"]]
       /\ hist' = [hist EXCEPT !.intAtEnter = reg["INT"]]
       /\ Goto("enter:write_int")
       /\ UNCHANGED <<reg, lut, rdFifo, wrFifo, running, priv, target, bus>>
    \/ /\ pc = "enter:write_int"
       /\ target_mem_write32_INT(loc.tmp)
       /\ loc' = [loc EXCEPT !.tmp = 0]
       /\ Goto("enter:write_read_fifo_ctrl")
       /\ UNCHANGED <<lut, rdFifo, wrFifo, running, priv, target, hist>>
    \/ /\ pc = "enter:write_read_fifo_ctrl"
       /\ target_mem_write32("PRG_READ_FIFO_CTRL",
              BitOr(IMXRT_FLEXSPI1_PRG_FIFO_CTRL_WATERMARK(128),
                    IMXRT_FLEXSPI1_PRG_FIFO_CTRL_CLR))
       /\ rdFifo' = <<>>
       /\ Goto("enter:write_write_fifo_ctrl")
       /\ UNCHANGED <<lut, wrFifo, running, priv, target, loc, hist>>
    \/ /\ pc = "enter:write_write_fifo_ctrl"
       /\ target_mem_write32("PRG_WRITE_FIFO_CTRL",
              BitOr(IMXRT_FLEXSPI1_PRG_FIFO_CTRL_WATERMARK(128),
                    IMXRT_FLEXSPI1_PRG_FIFO_CTRL_CLR))
       /\ wrFifo' = <<>>
       /\ Goto("enter:read_lut_ctrl")
       /\ UNCHANGED <<lut, rdFifo, running, priv, target, loc, hist>>
    \/ /\ pc = "enter:read_lut_ctrl"
       /\ priv' = [priv EXCEPT !.flexspi_lut_state = reg["LUT_CTRL"]]
       /\ hist' = [hist EXCEPT !.lutAtEnter = reg["LUT_CTRL"]]
       /\ IF reg["LUT_CTRL"] # IMXRT_FLEXSPI1_LUT_CTRL_UNLOCK
          THEN Goto("enter:write_lut_key")
          ELSE Goto("enter:return")
       /\ UNCHANGED <<reg, lut, rdFifo, wrFifo, running, target, loc, bus>>
    \/ /\ pc = "enter:write_lut_key"
       /\ target_mem_write32("LUT_KEY", IMXRT_FLEXSPI1_LUT_KEY_VALUE)
       /\ Goto("enter:write_lut_ctrl")
       /\ UNCHANGED <<lut, rdFifo, wrFifo, running, priv, target, loc, hist>>
    \/ /\ pc = "enter:write_lut_ctrl"
       /\ target_mem_write32("LUT_CTRL", IMXRT_FLEXSPI1_LUT_CTRL_UNLOCK)
       /\ Goto("enter:return")
       /\ UNCHANGED <<lut, rdFifo, wrFifo, running, priv, target, loc, hist>>
    \/ /\ pc = "enter:return"
       /\ hist' = [hist EXCEPT !.enters = @ + 1, !.enterRet = TRUE]
       /\ Return
       /\ UNCHANGED <<reg, lut, rdFifo, wrFifo, running, priv, target, loc, bus>>

(***************************************************************************)
(* imxrt_exit_flash_mode(), lines 316-326.                                 *)
(***************************************************************************)
(* imxrt_exit_flash_mode() writing the unlock command instead of the saved  *)
(* lock state.                                                             *)
imxrt_exit_flash_mode_unlock ==
    \/ /\ pc = "exit:check_lut_state"
       /\ IF priv.flexspi_lut_state # IMXRT_FLEXSPI1_LUT_CTRL_UNLOCK
          THEN Goto("exit:write_lut_key")
          ELSE Goto("exit:write_mod_ctrl0")
       /\ UNCHANGED <<reg, lut, rdFifo, wrFifo, running, priv, target, loc, bus, hist>>
    \/ /\ pc = "exit:write_lut_key"
       /\ target_mem_write32("LUT_KEY", IMXRT_FLEXSPI1_LUT_KEY_VALUE)
       /\ Goto("exit:write_lut_ctrl")
       /\ UNCHANGED <<lut, rdFifo, wrFifo, running, priv, target, loc, hist>>
    \/ /\ pc = "exit:write_lut_ctrl"
       /\ target_mem_write32("LUT_CTRL", IMXRT_FLEXSPI1_LUT_CTRL_UNLOCK)
       /\ Goto("exit:write_mod_ctrl0")
       /\ UNCHANGED <<lut, rdFifo, wrFifo, running, priv, target, loc, hist>>
    \/ /\ pc = "exit:write_mod_ctrl0"
       /\ target_mem_write32("MOD_CTRL0", priv.flexspi_module_state)
       /\ hist' = [hist EXCEPT !.exits = @ + 1]
       /\ Return
       /\ UNCHANGED <<lut, rdFifo, wrFifo, running, priv, target, loc>>

(* imxrt_exit_flash_mode() restoring the lock state without the key. *)
imxrt_exit_flash_mode_no_key ==
    \/ /\ pc = "exit:check_lut_state"
       /\ IF priv.flexspi_lut_state # IMXRT_FLEXSPI1_LUT_CTRL_UNLOCK
          THEN Goto("exit:write_lut_ctrl")
          ELSE Goto("exit:write_mod_ctrl0")
       /\ UNCHANGED <<reg, lut, rdFifo, wrFifo, running, priv, target, loc, bus, hist>>
    \/ /\ pc = "exit:write_lut_ctrl"
       /\ target_mem_write32("LUT_CTRL", priv.flexspi_lut_state)
       /\ Goto("exit:write_mod_ctrl0")
       /\ UNCHANGED <<lut, rdFifo, wrFifo, running, priv, target, loc, hist>>
    \/ /\ pc = "exit:write_mod_ctrl0"
       /\ target_mem_write32("MOD_CTRL0", priv.flexspi_module_state)
       /\ hist' = [hist EXCEPT !.exits = @ + 1]
       /\ Return
       /\ UNCHANGED <<lut, rdFifo, wrFifo, running, priv, target, loc>>

imxrt_exit_flash_mode ==
    \/ /\ pc = "exit:check_lut_state"
       /\ IF priv.flexspi_lut_state # IMXRT_FLEXSPI1_LUT_CTRL_UNLOCK
          THEN Goto("exit:write_lut_key")
          ELSE Goto("exit:write_mod_ctrl0")
       /\ UNCHANGED <<reg, lut, rdFifo, wrFifo, running, priv, target, loc, bus, hist>>
    \/ /\ pc = "exit:write_lut_key"
       /\ target_mem_write32("LUT_KEY", IMXRT_FLEXSPI1_LUT_KEY_VALUE)
       /\ Goto("exit:write_lut_ctrl")
       /\ UNCHANGED <<lut, rdFifo, wrFifo, running, priv, target, loc, hist>>
    \/ /\ pc = "exit:write_lut_ctrl"
       /\ target_mem_write32("LUT_CTRL", priv.flexspi_lut_state)
       /\ Goto("exit:write_mod_ctrl0")
       /\ UNCHANGED <<lut, rdFifo, wrFifo, running, priv, target, loc, hist>>
    \/ /\ pc = "exit:write_mod_ctrl0"
       /\ target_mem_write32("MOD_CTRL0", priv.flexspi_module_state)
       /\ hist' = [hist EXCEPT !.exits = @ + 1]
       /\ Return
       /\ UNCHANGED <<lut, rdFifo, wrFifo, running, priv, target, loc>>

(***************************************************************************)
(* The instruction program of imxrt_spi_configure_sequence(), lines        *)
(* 335-367: the local array sequence[8] and the final value of offset.     *)
(***************************************************************************)
HasAddress(command) ==
    BitAnd(command, IMXRT_SPI_FLASH_OPCODE_MODE_MASK) = IMXRT_SPI_FLASH_OPCODE_3B_ADDR

IsDataOut(command) == BitAnd(command, IMXRT_SPI_FLASH_DATA_OUT) # 0

Put(prog, insn) ==
    [sequence |-> [prog.sequence EXCEPT ![prog.offset + 1] = insn],
     offset |-> prog.offset + 1]

(* The row address instruction with the full 24 bits whatever the column   *)
(* address takes.                                                          *)
SequenceAddress_row_24(prog, command, column_address_bits) ==
    IF HasAddress(command)
    THEN LET row == Put(prog, Insn(IMXRT_FLEXSPI_LUT_OP_RADDR, 24))
         IN  IF column_address_bits # 0
             THEN Put(row, Insn(IMXRT_FLEXSPI_LUT_OP_CADDR, column_address_bits))
             ELSE row
    ELSE prog

SequenceAddress(prog, command, column_address_bits) ==
    IF HasAddress(command)
    THEN LET row == Put(prog, Insn(IMXRT_FLEXSPI_LUT_OP_RADDR, U8(24 - column_address_bits)))
         IN  IF column_address_bits # 0
             THEN Put(row, Insn(IMXRT_FLEXSPI_LUT_OP_CADDR, column_address_bits))
             ELSE row
    ELSE prog

(* The dummy instruction emitted only for a nonzero cycle count. *)
SequenceDummy_skip_zero(prog, command) ==
    IF BitAnd(command, IMXRT_SPI_FLASH_DUMMY_MASK) # 0
    THEN Put(prog, Insn(IMXRT_FLEXSPI_LUT_OP_DUMMY_CYCLES,
                   Shr(BitAnd(command, IMXRT_SPI_FLASH_DUMMY_MASK), IMXRT_SPI_FLASH_DUMMY_SHIFT)))
    ELSE prog

SequenceDummy(prog, command) ==
    Put(prog, Insn(IMXRT_FLEXSPI_LUT_OP_DUMMY_CYCLES,
                   Shr(BitAnd(command, IMXRT_SPI_FLASH_DUMMY_MASK), IMXRT_SPI_FLASH_DUMMY_SHIFT)))

(* One data instruction emitted per byte of the transfer. *)
SequenceData_per_byte(prog, command, length) ==
    [sequence |-> [i \in 1..LutSlots |->
                      IF i > prog.offset /\ i <= prog.offset + length
                      THEN Insn(IF IsDataOut(command) THEN IMXRT_FLEXSPI_LUT_OP_WRITE
                                ELSE IMXRT_FLEXSPI_LUT_OP_READ, 0)
                      ELSE prog.sequence[i]],
     offset |-> prog.offset + length]

SequenceData(prog, command, length) ==
    IF length # 0
    THEN IF IsDataOut(command)
         THEN Put(prog, Insn(IMXRT_FLEXSPI_LUT_OP_WRITE, 0))
         ELSE Put(prog, Insn(IMXRT_FLEXSPI_LUT_OP_READ, 0))
    ELSE prog

BuildSequence(command, column_address_bits, length) ==
    LET start == [sequence |-> [EmptySequence EXCEPT ![1] =
                       Insn(IMXRT_FLEXSPI_LUT_OP_COMMAND,
                            BitAnd(command, IMXRT_SPI_FLASH_OPCODE_MASK))],
                  offset |-> 1]
    IN  SequenceData(
            SequenceDummy(SequenceAddress(start, command, column_address_bits), command),
            command, length)

(***************************************************************************)
(* imxrt_spi_configure_sequence(), lines 328-378.                          *)
(***************************************************************************)
imxrt_spi_configure_sequence ==
    \/ /\ pc = "configure:read_lut"
       /\ priv' = [priv EXCEPT !.flexspi_lut_seq = lut]
       /\ hist' = [hist EXCEPT !.programs = @ + 1, !.steps = Append(@, "capture")]
       /\ IF HasAddress(loc.command)
          THEN Goto("configure:read_ctrl1")
          ELSE Goto("configure:write_lut")
       /\ UNCHANGED <<reg, lut, rdFifo, wrFifo, running, target, loc, bus>>
    \/ /\ pc = "configure:read_ctrl1"
       /\ loc' = [loc EXCEPT !.tmp =
              U8(Shr(BitAnd(reg["CTRL1"], IMXRT_FLEXSPI1_CTRL1_CAS_MASK),
                     IMXRT_FLEXSPI1_CTRL1_CAS_SHIFT))]
       /\ Goto("configure:write_lut")
       /\ UNCHANGED <<reg, lut, rdFifo, wrFifo, running, priv, target, bus, hist>>
    \/ /\ pc = "configure:write_lut"
       /\ lut' = BuildSequence(loc.command, loc.tmp, loc.length).sequence
       /\ hist' = [hist EXCEPT !.offset =
                       BuildSequence(loc.command, loc.tmp, loc.length).offset,
                       !.steps = Append(@, "program")]
       /\ BusWrite("LUT", 0)
       /\ loc' = [loc EXCEPT !.tmp = 0]
       /\ IF HasAddress(loc.command)
          THEN Goto("configure:write_prg_ctrl0")
          ELSE Goto("configure:write_prg_ctrl1")
       /\ UNCHANGED <<reg, rdFifo, wrFifo, running, priv, target>>
    \/ /\ pc = "configure:write_prg_ctrl0"
       /\ target_mem_write32("PRG_CTRL0", loc.address)
       /\ hist' = [hist EXCEPT !.steps = Append(@, "address")]
       /\ Goto("configure:write_prg_ctrl1")
       /\ UNCHANGED <<lut, rdFifo, wrFifo, running, priv, target, loc>>
    \/ /\ pc = "configure:write_prg_ctrl1"
       /\ target_mem_write32("PRG_CTRL1",
              BitOr(IMXRT_FLEXSPI1_PRG_LUT_INDEX_0, IMXRT_FLEXSPI1_PRG_LENGTH(loc.length)))
       /\ hist' = [hist EXCEPT !.steps = Append(@, "length")]
       /\ Return
       /\ UNCHANGED <<lut, rdFifo, wrFifo, running, priv, target, loc>>

(***************************************************************************)
(* imxrt_spi_restore(), lines 380-385.                                     *)
(***************************************************************************)
(* imxrt_spi_restore() writing a zeroed table instead of the saved one. *)
imxrt_spi_restore_zeroed ==
    /\ pc = "restore:write_lut"
    /\ lut' = EmptySequence
    /\ BusWrite("LUT", 1)
    /\ hist' = [hist EXCEPT !.restores = @ + 1, !.steps = Append(@, "restore")]
    /\ Return
    /\ UNCHANGED <<reg, rdFifo, wrFifo, running, priv, target, loc>>

imxrt_spi_restore ==
    /\ pc = "restore:write_lut"
    /\ lut' = priv.flexspi_lut_seq
    /\ BusWrite("LUT", 1)
    /\ hist' = [hist EXCEPT !.restores = @ + 1, !.steps = Append(@, "restore")]
    /\ Return
    /\ UNCHANGED <<reg, rdFifo, wrFifo, running, priv, target, loc>>

(***************************************************************************)
(* imxrt_spi_wait_complete(), lines 387-396.                               *)
(***************************************************************************)
(* imxrt_spi_wait_complete() polling the read-FIFO-full flag. *)
imxrt_spi_wait_complete_wrong_flag ==
    \/ /\ pc = "wait:write_prg_cmd"
       /\ running' = TRUE
       /\ BusWrite("PRG_CMD", IMXRT_FLEXSPI1_PRG_RUN)
       /\ hist' = [hist EXCEPT !.steps = Append(@, "trigger")]
       /\ Goto("wait:poll_int")
       /\ UNCHANGED <<reg, lut, rdFifo, wrFifo, priv, target, loc>>
    \/ /\ pc = "wait:poll_int"
       /\ IF BitAnd(reg["INT"], IMXRT_FLEXSPI1_INT_READ_FIFO_FULL) # 0
          THEN /\ Goto("wait:write_int")
               /\ hist' = [hist EXCEPT !.steps = Append(@, "done")]
          ELSE /\ Goto("wait:poll_int")
               /\ UNCHANGED hist
       /\ UNCHANGED <<reg, lut, rdFifo, wrFifo, running, priv, target, loc, bus>>
    \/ /\ pc = "wait:write_int"
       /\ target_mem_write32_INT(IMXRT_FLEXSPI1_INT_PRG_CMD_DONE)
       /\ hist' = [hist EXCEPT !.steps = Append(@, "ack_done")]
       /\ Return
       /\ UNCHANGED <<lut, rdFifo, wrFifo, running, priv, target, loc>>

(* imxrt_spi_wait_complete() acknowledging the read-FIFO-full flag in      *)
(* place of command-done.                                                  *)
imxrt_spi_wait_complete_wrong_ack ==
    \/ /\ pc = "wait:write_prg_cmd"
       /\ running' = TRUE
       /\ BusWrite("PRG_CMD", IMXRT_FLEXSPI1_PRG_RUN)
       /\ hist' = [hist EXCEPT !.steps = Append(@, "trigger")]
       /\ Goto("wait:poll_int")
       /\ UNCHANGED <<reg, lut, rdFifo, wrFifo, priv, target, loc>>
    \/ /\ pc = "wait:poll_int"
       /\ IF BitAnd(reg["INT"], IMXRT_FLEXSPI1_INT_PRG_CMD_DONE) # 0
          THEN /\ Goto("wait:write_int")
               /\ hist' = [hist EXCEPT !.steps = Append(@, "done")]
          ELSE /\ Goto("wait:poll_int")
               /\ UNCHANGED hist
       /\ UNCHANGED <<reg, lut, rdFifo, wrFifo, running, priv, target, loc, bus>>
    \/ /\ pc = "wait:write_int"
       /\ target_mem_write32_INT(IMXRT_FLEXSPI1_INT_READ_FIFO_FULL)
       /\ hist' = [hist EXCEPT !.steps = Append(@, "ack_done")]
       /\ Return
       /\ UNCHANGED <<lut, rdFifo, wrFifo, running, priv, target, loc>>

imxrt_spi_wait_complete ==
    \/ /\ pc = "wait:write_prg_cmd"
       /\ running' = TRUE
       /\ BusWrite("PRG_CMD", IMXRT_FLEXSPI1_PRG_RUN)
       /\ hist' = [hist EXCEPT !.steps = Append(@, "trigger")]
       /\ Goto("wait:poll_int")
       /\ UNCHANGED <<reg, lut, rdFifo, wrFifo, priv, target, loc>>
    \/ /\ pc = "wait:poll_int"
       /\ IF BitAnd(reg["INT"], IMXRT_FLEXSPI1_INT_PRG_CMD_DONE) # 0
          THEN /\ Goto("wait:write_int")
               /\ hist' = [hist EXCEPT !.steps = Append(@, "done")]
          ELSE /\ Goto("wait:poll_int")
               /\ UNCHANGED hist
       /\ UNCHANGED <<reg, lut, rdFifo, wrFifo, running, priv, target, loc, bus>>
    \/ /\ pc = "wait:write_int"
       /\ target_mem_write32_INT(IMXRT_FLEXSPI1_INT_PRG_CMD_DONE)
       /\ hist' = [hist EXCEPT !.steps = Append(@, "ack_done")]
       /\ Return
       /\ UNCHANGED <<lut, rdFifo, wrFifo, running, priv, target, loc>>

(***************************************************************************)
(* The FlexSPI controller and the flash behind it: a triggered IP command  *)
(* runs the program in the instruction table, moves the data through the   *)
(* FIFOs and raises the command-done flag.  What the flash answers is not  *)
(* known to the driver, so it is any value of the sets below.              *)
(***************************************************************************)
StatusBytes == {0, 1, 2, 3}
JedecIds == {<<239, 64, 22>>, <<239, 64, 23>>, <<255, 255, 255>>, <<239, 255, 22>>,
             <<255, 64, 22>>, <<32, 186, 32>>}
Filler(n) == [i \in 1..n |-> 83]

ProgramOpcode(table) ==
    IF table[1].opcode_mode = Insn(IMXRT_FLEXSPI_LUT_OP_COMMAND, 0).opcode_mode
    THEN table[1].value ELSE -1
ProgramHas(table, op) ==
    \E i \in 1..LutSlots : table[i].opcode_mode = Insn(op, 0).opcode_mode

FlashResponse(opcode, n) ==
    IF opcode = 5 /\ n = 1 THEN {<<s>> : s \in StatusBytes}
    ELSE IF opcode = 159 /\ n = 3 THEN JedecIds
    ELSE {Filler(n)}

Bump(n) == IF n < 2 THEN n + 1 ELSE n

FlexSPI_Execute ==
    /\ running
    /\ running' = FALSE
    /\ LET opcode == ProgramOpcode(lut)
           n == BitAnd(reg["PRG_CTRL1"], 65535)
       IN  /\ IF ProgramHas(lut, IMXRT_FLEXSPI_LUT_OP_READ)
              THEN \E bytes \in FlashResponse(opcode, n) : rdFifo' = bytes
              ELSE rdFifo' = rdFifo
           /\ IF ProgramHas(lut, IMXRT_FLEXSPI_LUT_OP_WRITE)
              THEN wrFifo' = <<>>
              ELSE wrFifo' = wrFifo
           /\ LET flags == IF ProgramHas(lut, IMXRT_FLEXSPI_LUT_OP_READ) /\ n > 0
                           THEN IMXRT_FLEXSPI1_INT_READ_FIFO_FULL ELSE 0
              IN  reg' = [reg EXCEPT !["INT"] =
                            BitOr(BitOr(@, IMXRT_FLEXSPI1_INT_PRG_CMD_DONE), flags)]
           /\ hist' = [hist EXCEPT
                 !.weIssued = IF opcode = 6 THEN Bump(@) ELSE @,
                 !.ceIssued = IF opcode = 96 THEN Bump(@) ELSE @,
                 !.statusAtCE = IF opcode = 96 THEN hist.lastStatus ELSE @]
    /\ UNCHANGED <<lut, priv, target, pc, stack, loc, bus>>

(***************************************************************************)
(* imxrt_spi_read(), lines 398-411.                                        *)
(***************************************************************************)
FifoWindow(fifo) ==
    [i \in 1..ReadFifoWindow |-> IF i <= Len(fifo) THEN fifo[i] ELSE 0]

(* imxrt_spi_read() copying the read FIFO before it runs the command. *)
imxrt_spi_read_fifo_first ==
    \/ /\ pc = "read:configure"
       /\ hist' = [hist EXCEPT !.xfer = "read", !.programs = 0, !.restores = 0,
                               !.tableBefore = lut, !.steps = <<>>]
       /\ CallTo("configure:read_lut", "read:read_fifo")
       /\ UNCHANGED <<reg, lut, rdFifo, wrFifo, running, priv, target, loc, bus>>
    \/ /\ pc = "read:read_fifo"
       /\ loc' = [loc EXCEPT !.buffer = SubSeq(FifoWindow(rdFifo), 1, loc.length)]
       /\ hist' = [hist EXCEPT !.steps = Append(@, "read_fifo")]
       /\ Goto("read:write_int")
       /\ UNCHANGED <<reg, lut, rdFifo, wrFifo, running, priv, target, bus>>
    \/ /\ pc = "read:write_int"
       /\ target_mem_write32_INT(IMXRT_FLEXSPI1_INT_READ_FIFO_FULL)
       /\ hist' = [hist EXCEPT !.steps = Append(@, "ack_read_fifo_full")]
       /\ CallTo("wait:write_prg_cmd", "read:wait_complete")
       /\ UNCHANGED <<lut, rdFifo, wrFifo, running, priv, target, loc>>
    \/ /\ pc = "read:wait_complete"
       /\ CallTo("restore:write_lut", "read:return")
       /\ UNCHANGED <<reg, lut, rdFifo, wrFifo, running, priv, target, loc, bus, hist>>
    \/ /\ pc = "read:return"
       /\ hist' = [hist EXCEPT !.xfer = "read_done", !.steps = <<>>]
       /\ Return
       /\ UNCHANGED <<reg, lut, rdFifo, wrFifo, running, priv, target, loc, bus>>

imxrt_spi_read ==
    \/ /\ pc = "read:configure"
       /\ hist' = [hist EXCEPT !.xfer = "read", !.programs = 0, !.restores = 0,
                               !.tableBefore = lut, !.steps = <<>>]
       /\ CallTo("configure:read_lut", "read:wait_complete")
       /\ UNCHANGED <<reg, lut, rdFifo, wrFifo, running, priv, target, loc, bus>>
    \/ /\ pc = "read:wait_complete"
       /\ CallTo("wait:write_prg_cmd", "read:read_fifo")
       /\ UNCHANGED <<reg, lut, rdFifo, wrFifo, running, priv, target, loc, bus, hist>>
    \/ /\ pc = "read:read_fifo"
       /\ loc' = [loc EXCEPT !.buffer = SubSeq(FifoWindow(rdFifo), 1, loc.length)]
       /\ hist' = [hist EXCEPT !.steps = Append(@, "read_fifo")]
       /\ Goto("read:write_int")
       /\ UNCHANGED <<reg, lut, rdFifo, wrFifo, running, priv, target, bus>>
    \/ /\ pc = "read:write_int"
       /\ target_mem_write32_INT(IMXRT_FLEXSPI1_INT_READ_FIFO_FULL)
       /\ hist' = [hist EXCEPT !.steps = Append(@, "ack_read_fifo_full")]
       /\ CallTo("restore:write_lut", "read:return")
       /\ UNCHANGED <<lut, rdFifo, wrFifo, running, priv, target, loc>>
    \/ /\ pc = "read:return"
       /\ hist' = [hist EXCEPT !.xfer = "read_done", !.steps = <<>>]
       /\ Return
       /\ UNCHANGED <<reg, lut, rdFifo, wrFifo, running, priv, target, loc, bus>>

(***************************************************************************)
(* imxrt_spi_write(), lines 413-429.                                       *)
(***************************************************************************)
PadToWord(data, length) ==
    LET padded == BitAndNot(length + 3, 3)
    IN  [i \in 1..padded |-> IF i <= length THEN data[i] ELSE 0]

(* The data phase of imxrt_spi_write(), lines 419-425, taken when length    *)
(* is not 0.                                                               *)
imxrt_spi_write_fifo ==
    \/ /\ pc = "write:write_fifo"
       /\ wrFifo' = PadToWord(loc.data, loc.length)
       /\ BusWrite("PRG_WRITE_FIFO", loc.length)
       /\ hist' = [hist EXCEPT !.steps = Append(@, "fill")]
       /\ Goto("write:write_int")
       /\ UNCHANGED <<reg, lut, rdFifo, running, priv, target, loc>>
    \/ /\ pc = "write:write_int"
       /\ target_mem_write32_INT(IMXRT_FLEXSPI1_INT_WRITE_FIFO_EMPTY)
       /\ hist' = [hist EXCEPT !.steps = Append(@, "ack_write_fifo_empty")]
       /\ Goto("write:wait_complete")
       /\ UNCHANGED <<lut, rdFifo, wrFifo, running, priv, target, loc>>

imxrt_spi_write ==
    \/ /\ pc = "write:configure"
       /\ hist' = [hist EXCEPT !.xfer = "write", !.programs = 0, !.restores = 0,
                               !.tableBefore = lut, !.steps = <<>>]
       /\ CallTo("configure:read_lut", "write:check_length")
       /\ UNCHANGED <<reg, lut, rdFifo, wrFifo, running, priv, target, loc, bus>>
    \/ /\ pc = "write:check_length"
       /\ IF loc.length # 0
          THEN Goto("write:write_fifo")
          ELSE Goto("write:wait_complete")
       /\ UNCHANGED <<reg, lut, rdFifo, wrFifo, running, priv, target, loc, bus, hist>>
    \/ /\ pc = "write:wait_complete"
       /\ CallTo("wait:write_prg_cmd", "write:restore")
       /\ UNCHANGED <<reg, lut, rdFifo, wrFifo, running, priv, target, loc, bus, hist>>
    \/ /\ pc = "write:restore"
       /\ CallTo("restore:write_lut", "write:return")
       /\ UNCHANGED <<reg, lut, rdFifo, wrFifo, running, priv, target, loc, bus, hist>>
    \/ /\ pc = "write:return"
       /\ hist' = [hist EXCEPT !.xfer = "write_done", !.steps = <<>>]
       /\ Return
       /\ UNCHANGED <<reg, lut, rdFifo, wrFifo, running, priv, target, loc, bus>>

(***************************************************************************)
(* imxrt_spi_read_status(), lines 431-436, and imxrt_spi_run_command(),    *)
(* lines 438-441.                                                          *)
(***************************************************************************)
imxrt_spi_read_status ==
    \/ /\ pc = "read_status:call"
       /\ loc' = [loc EXCEPT !.status = 0, !.command = SPI_FLASH_CMD_READ_STATUS,
                             !.address = 0, !.length = 1]
       /\ CallTo("read:configure", "read_status:return")
       /\ UNCHANGED <<reg, lut, rdFifo, wrFifo, running, priv, target, bus, hist>>
    \/ /\ pc = "read_status:return"
       /\ loc' = [loc EXCEPT !.status = loc.buffer[1], !.buffer = <<>>]
       /\ hist' = [hist EXCEPT !.lastStatus = loc.buffer[1],
                               !.firstStatus = IF @ = -1 THEN loc.buffer[1] ELSE @,
                               !.polled = (hist.ceIssued > 0)]
       /\ Return
       /\ UNCHANGED <<reg, lut, rdFifo, wrFifo, running, priv, target, bus>>

imxrt_spi_run_command ==
    /\ pc = "run_command:call"
    /\ loc' = [loc EXCEPT !.address = 0, !.data = <<>>, !.length = 0]
    /\ Goto("write:configure")
    /\ UNCHANGED <<reg, lut, rdFifo, wrFifo, running, priv, target, bus, hist>>

(***************************************************************************)
(* imxrt_spi_mass_erase(), lines 443-459.                                  *)
(***************************************************************************)
(* The write-enable check testing the busy bit. *)
WriteEnabled_busy_bit(status) == BitAnd(status, SPI_FLASH_STATUS_BUSY) # 0

WriteEnabled(status) == BitAnd(status, SPI_FLASH_STATUS_WRITE_ENABLED) # 0

(* The busy check testing the write-enabled bit. *)
Busy_write_enabled_bit(status) == BitAnd(status, SPI_FLASH_STATUS_WRITE_ENABLED) # 0

Busy(status) == BitAnd(status, SPI_FLASH_STATUS_BUSY) # 0

(* imxrt_spi_mass_erase() returning from the failed write-enable check      *)
(* without leaving flash mode.                                             *)
imxrt_spi_mass_erase_no_exit ==
    \/ /\ pc = "mass_erase:enter_flash_mode"
       /\ CallTo("enter:read_mod_ctrl0", "mass_erase:write_enable")
       /\ UNCHANGED <<reg, lut, rdFifo, wrFifo, running, priv, target, loc, bus, hist>>
    \/ /\ pc = "mass_erase:write_enable"
       /\ loc' = [loc EXCEPT !.command = SPI_FLASH_CMD_WRITE_ENABLE]
       /\ CallTo("run_command:call", "mass_erase:read_status")
       /\ UNCHANGED <<reg, lut, rdFifo, wrFifo, running, priv, target, bus, hist>>
    \/ /\ pc = "mass_erase:read_status"
       /\ CallTo("read_status:call", "mass_erase:check_write_enabled")
       /\ UNCHANGED <<reg, lut, rdFifo, wrFifo, running, priv, target, loc, bus, hist>>
    \/ /\ pc = "mass_erase:check_write_enabled"
       /\ IF ~WriteEnabled(loc.status)
          THEN Goto("mass_erase:return_false")
          ELSE Goto("mass_erase:chip_erase")
       /\ UNCHANGED <<reg, lut, rdFifo, wrFifo, running, priv, target, loc, bus, hist>>
    \/ /\ pc = "mass_erase:return_false"
       /\ hist' = [hist EXCEPT !.returned = TRUE, !.ret = FALSE]
       /\ loc' = NoLocals
       /\ Return
       /\ UNCHANGED <<reg, lut, rdFifo, wrFifo, running, priv, target, bus>>
    \/ /\ pc = "mass_erase:chip_erase"
       /\ loc' = [loc EXCEPT !.command = SPI_FLASH_CMD_CHIP_ERASE]
       /\ CallTo("run_command:call", "mass_erase:poll_status")
       /\ UNCHANGED <<reg, lut, rdFifo, wrFifo, running, priv, target, bus, hist>>
    \/ /\ pc = "mass_erase:poll_status"
       /\ CallTo("read_status:call", "mass_erase:check_busy")
       /\ UNCHANGED <<reg, lut, rdFifo, wrFifo, running, priv, target, loc, bus, hist>>
    \/ /\ pc = "mass_erase:check_busy"
       /\ IF Busy(loc.status)
          THEN Goto("mass_erase:poll_status")
          ELSE CallTo("exit:check_lut_state", "mass_erase:return")
       /\ UNCHANGED <<reg, lut, rdFifo, wrFifo, running, priv, target, loc, bus, hist>>
    \/ /\ pc = "mass_erase:return"
       /\ hist' = [hist EXCEPT !.returned = TRUE, !.ret = TRUE]
       /\ loc' = NoLocals
       /\ Return
       /\ UNCHANGED <<reg, lut, rdFifo, wrFifo, running, priv, target, bus>>

imxrt_spi_mass_erase ==
    \/ /\ pc = "mass_erase:enter_flash_mode"
       /\ CallTo("enter:read_mod_ctrl0", "mass_erase:write_enable")
       /\ UNCHANGED <<reg, lut, rdFifo, wrFifo, running, priv, target, loc, bus, hist>>
    \/ /\ pc = "mass_erase:write_enable"
       /\ loc' = [loc EXCEPT !.command = SPI_FLASH_CMD_WRITE_ENABLE]
       /\ CallTo("run_command:call", "mass_erase:read_status")
       /\ UNCHANGED <<reg, lut, rdFifo, wrFifo, running, priv, target, bus, hist>>
    \/ /\ pc = "mass_erase:read_status"
       /\ CallTo("read_status:call", "mass_erase:check_write_enabled")
       /\ UNCHANGED <<reg, lut, rdFifo, wrFifo, running, priv, target, loc, bus, hist>>
    \/ /\ pc = "mass_erase:check_write_enabled"
       /\ IF ~WriteEnabled(loc.status)
          THEN CallTo("exit:check_lut_state", "mass_erase:return_false")
          ELSE Goto("mass_erase:chip_erase")
       /\ UNCHANGED <<reg, lut, rdFifo, wrFifo, running, priv, target, loc, bus, hist>>
    \/ /\ pc = "mass_erase:return_false"
       /\ hist' = [hist EXCEPT !.returned = TRUE, !.ret = FALSE]
       /\ loc' = NoLocals
       /\ Return
       /\ UNCHANGED <<reg, lut, rdFifo, wrFifo, running, priv, target, bus>>
    \/ /\ pc = "mass_erase:chip_erase"
       /\ loc' = [loc EXCEPT !.command = SPI_FLASH_CMD_CHIP_ERASE]
       /\ CallTo("run_command:call", "mass_erase:poll_status")
       /\ UNCHANGED <<reg, lut, rdFifo, wrFifo, running, priv, target, bus, hist>>
    \/ /\ pc = "mass_erase:poll_status"
       /\ CallTo("read_status:call", "mass_erase:check_busy")
       /\ UNCHANGED <<reg, lut, rdFifo, wrFifo, running, priv, target, loc, bus, hist>>
    \/ /\ pc = "mass_erase:check_busy"
       /\ IF Busy(loc.status)
          THEN Goto("mass_erase:poll_status")
          ELSE CallTo("exit:check_lut_state", "mass_erase:return")
       /\ UNCHANGED <<reg, lut, rdFifo, wrFifo, running, priv, target, loc, bus, hist>>
    \/ /\ pc = "mass_erase:return"
       /\ hist' = [hist EXCEPT !.returned = TRUE, !.ret = TRUE]
       /\ loc' = NoLocals
       /\ Return
       /\ UNCHANGED <<reg, lut, rdFifo, wrFifo, running, priv, target, bus>>

(***************************************************************************)
(* sfdp_read_parameters() of sfdp.c, as imxrt_add_flash() uses it: it      *)
(* reads the SFDP tables through the callback imxrt_spi_read_sfdp() (lines *)
(* 164-167) and either fills spi_parameters and returns true, or returns   *)
(* false leaving spi_parameters in any state.                              *)
(***************************************************************************)
Geometry(page, sector, cap, erase) ==
    [page_size |-> page, sector_size |-> sector, capacity |-> cap,
     sector_erase_opcode |-> erase]
SfdpGeometries == {Geometry(512, 65536, 33554432, 216)}
SfdpLeftovers == {Geometry(0, 0, 0, 0), Geometry(512, 65536, 33554432, 216)}
SfdpRequests == {<<0, 8>>, <<48, 64>>}

sfdp_read_parameters ==
    \/ /\ pc = "sfdp:read_parameters"
       /\ loc.sfdp_reads < MaxSfdpReads
       /\ \E rq \in SfdpRequests :
             loc' = [loc EXCEPT !.sfdp_reads = @ + 1, !.address = rq[1], !.length = rq[2]]
       /\ CallTo("read_sfdp:call", "sfdp:read_parameters")
       /\ UNCHANGED <<reg, lut, rdFifo, wrFifo, running, priv, target, bus, hist>>
    \/ /\ pc = "sfdp:read_parameters"
       /\ \E g \in SfdpGeometries :
             /\ loc' = [loc EXCEPT !.spi_parameters = g, !.sfdp_ok = TRUE,
                                   !.sfdp_reads = 0, !.buffer = <<>>]
             /\ hist' = [hist EXCEPT !.sfdp = "ok", !.sfdp_params = g]
       /\ Return
       /\ UNCHANGED <<reg, lut, rdFifo, wrFifo, running, priv, target, bus>>
    \/ /\ pc = "sfdp:read_parameters"
       /\ \E g \in SfdpLeftovers :
             /\ loc' = [loc EXCEPT !.spi_parameters = g, !.sfdp_ok = FALSE,
                                   !.sfdp_reads = 0, !.buffer = <<>>]
             /\ hist' = [hist EXCEPT !.sfdp = "failed", !.sfdp_params = g]
       /\ Return
       /\ UNCHANGED <<reg, lut, rdFifo, wrFifo, running, priv, target, bus>>

imxrt_spi_read_sfdp ==
    /\ pc = "read_sfdp:call"
    /\ loc' = [loc EXCEPT !.command = SPI_FLASH_CMD_READ_SFDP]
    /\ Goto("read:configure")
    /\ UNCHANGED <<reg, lut, rdFifo, wrFifo, running, priv, target, bus, hist>>

(***************************************************************************)
(* imxrt_add_flash(), lines 169-193.  loc.capacity is its argument length. *)
(***************************************************************************)
(* The fallback leaving the capacity as sfdp_read_parameters() left it. *)
FallbackParameters_keep_capacity(parameters, length) ==
    Geometry(256, 4096, parameters.capacity, SPI_FLASH_OPCODE_SECTOR_ERASE)

FallbackParameters(parameters, length) ==
    Geometry(256, 4096, length, SPI_FLASH_OPCODE_SECTOR_ERASE)

FlashRegion(parameters) ==
    [start |-> IMXRT_FLEXSPI_BASE, length |-> parameters.capacity,
     blocksize |-> parameters.sector_size, erased |-> 255]

imxrt_add_flash ==
    \/ /\ pc = "add_flash:calloc"
       /\ \/ Return
          \/ CallTo("sfdp:read_parameters", "add_flash:target_add_flash")
       /\ UNCHANGED <<reg, lut, rdFifo, wrFifo, running, priv, target, loc, bus, hist>>
    \/ /\ pc = "add_flash:target_add_flash"
       /\ LET spi_parameters ==
                  IF ~loc.sfdp_ok
                  THEN FallbackParameters(loc.spi_parameters, loc.capacity)
                  ELSE loc.spi_parameters
          IN  /\ target' = [target EXCEPT !.flash = Append(@, FlashRegion(spi_parameters))]
              /\ loc' = [loc EXCEPT !.spi_parameters = spi_parameters]
       /\ Return
       /\ UNCHANGED <<reg, lut, rdFifo, wrFifo, running, priv, bus, hist>>

(***************************************************************************)
(* imxrt_probe(), lines 195-267.                                           *)
(***************************************************************************)
(* 1U << n for a uint8_t n: defined below the width of unsigned int; at or *)
(* above it the shift is undefined, and a build yields either 0 or the     *)
(* shift by n modulo the width.                                            *)
ShiftLeftOne(n) ==
    IF n < WordBits THEN {Pow2(n)} ELSE {0, Pow2(n % WordBits)}

(* The ID check rejecting only an ID whose three bytes are all 0xff. *)
ValidFlashId_any(flash_id) ==
    flash_id[1] # 255 \/ flash_id[2] # 255 \/ flash_id[3] # 255

ValidFlashId(flash_id) ==
    flash_id[1] # 255 /\ flash_id[2] # 255 /\ flash_id[3] # 255

(* The part check accepting every part. *)
IsImxrtPart_any(part_id) == part_id = part_id

IsImxrtPart(part_id) == part_id = IMXRT_PART_ID

(* The boot source test taking SLC NAND for serial NAND. *)
IsSpiBoot_slc_nand(boot_source) ==
    boot_source = "boot_spi_flash_nor" \/ boot_source = "boot_slc_nand"

IsSpiBoot(boot_source) ==
    boot_source = "boot_spi_flash_nor" \/ boot_source = "boot_spi_flash_nand"

imxrt_probe ==
    \/ /\ pc = "probe:check_part_id"
       /\ IF ~IsImxrtPart(target.part_id)
          THEN /\ hist' = [hist EXCEPT !.returned = TRUE, !.ret = FALSE]
               /\ Return
          ELSE /\ Goto("probe:calloc")
               /\ UNCHANGED hist
       /\ UNCHANGED <<reg, lut, rdFifo, wrFifo, running, priv, target, loc, bus>>
    \/ /\ pc = "probe:calloc"
       /\ \/ /\ hist' = [hist EXCEPT !.returned = TRUE, !.ret = FALSE]
             /\ Return
             /\ UNCHANGED <<priv, target>>
          \/ /\ priv' = ZeroPriv
             /\ target' = [target EXCEPT !.target_storage = TRUE,
                                         !.inhibit_nrst = TRUE,
                                         !.driver = "i.MXRT10xx"]
             /\ Goto("probe:read_boot_cfg")
             /\ UNCHANGED hist
       /\ UNCHANGED <<reg, lut, rdFifo, wrFifo, running, loc, bus>>
    \/ /\ pc = "probe:read_boot_cfg"
       /\ LET boot_source == imxrt_boot_source(reg["SRC_BOOT_MODE1"])
          IN  /\ priv' = [priv EXCEPT !.boot_source = boot_source]
              /\ target' = [target EXCEPT !.ram =
                    @ \o <<[start |-> IMXRT_OCRAM1_BASE, length |-> IMXRT_OCRAM1_SIZE],
                           [start |-> IMXRT_OCRAM2_BASE, length |-> IMXRT_OCRAM2_SIZE]>>]
              /\ IF IsSpiBoot(boot_source)
                 THEN CallTo("enter:read_mod_ctrl0", "probe:read_jedec_id")
                 ELSE Goto("probe:return")
       /\ UNCHANGED <<reg, lut, rdFifo, wrFifo, running, loc, bus, hist>>
    \/ /\ pc = "probe:read_jedec_id"
       /\ loc' = [loc EXCEPT !.command = SPI_FLASH_CMD_READ_JEDEC_ID,
                             !.address = 0, !.length = 3]
       /\ CallTo("read:configure", "probe:check_flash_id")
       /\ UNCHANGED <<reg, lut, rdFifo, wrFifo, running, priv, target, bus, hist>>
    \/ /\ pc = "probe:check_flash_id"
       /\ target' = [target EXCEPT !.mass_erase = TRUE, !.enter_flash_mode = TRUE,
                                   !.exit_flash_mode = TRUE]
       /\ LET flash_id == loc.buffer
          IN  IF ValidFlashId(flash_id)
              THEN \E capacity \in ShiftLeftOne(flash_id[3]) :
                      /\ loc' = [loc EXCEPT !.capacity = capacity, !.buffer = <<>>]
                      /\ hist' = [hist EXCEPT !.flash_id = flash_id, !.requested = TRUE,
                                              !.fallback = capacity]
                      /\ CallTo("add_flash:calloc", "probe:exit_flash_mode")
              ELSE /\ loc' = [loc EXCEPT !.buffer = <<>>]
                   /\ hist' = [hist EXCEPT !.flash_id = flash_id]
                   /\ Goto("probe:exit_flash_mode")
       /\ UNCHANGED <<reg, lut, rdFifo, wrFifo, running, priv, bus>>
    \/ /\ pc = "probe:exit_flash_mode"
       /\ CallTo("exit:check_lut_state", "probe:return")
       /\ UNCHANGED <<reg, lut, rdFifo, wrFifo, running, priv, target, loc, bus, hist>>
    \/ /\ pc = "probe:return"
       /\ hist' = [hist EXCEPT !.returned = TRUE, !.ret = TRUE]
       /\ loc' = NoLocals
       /\ Return
       /\ UNCHANGED <<reg, lut, rdFifo, wrFifo, running, priv, target, bus>>

(***************************************************************************)
(* The debugger framework calling into the driver.  imxrt_probe() is       *)
(* called once on attach; the hooks it installs in target_s are called     *)
(* afterwards.                                                             *)
(***************************************************************************)
BeginCall(name) ==
    [NoHist EXCEPT !.ep = name, !.returned = FALSE,
                   !.entryMod = reg["MOD_CTRL0"], !.entryLut = reg["LUT_CTRL"],
                   !.entryTable = lut, !.firmwareTable = hist.firmwareTable,
                   !.xferCalls = hist.xferCalls, !.lutAtEnter = hist.lutAtEnter,
                   !.intAtEnter = hist.intAtEnter]

CallProbe ==
    /\ pc = "idle"
    /\ hist.ep = "none"
    /\ hist' = BeginCall("imxrt_probe")
    /\ CallTo("probe:check_part_id", "idle")
    /\ UNCHANGED <<reg, lut, rdFifo, wrFifo, running, priv, target, loc, bus>>

CallMassErase ==
    /\ pc = "idle"
    /\ target.mass_erase
    /\ hist' = BeginCall("imxrt_spi_mass_erase")
    /\ CallTo("mass_erase:enter_flash_mode", "idle")
    /\ UNCHANGED <<reg, lut, rdFifo, wrFifo, running, priv, target, loc, bus>>

(* The framework brackets its own flash operations with the two hooks. *)
CallEnterHook ==
    /\ pc = "idle"
    /\ target.enter_flash_mode
    /\ hist' = [BeginCall("imxrt_enter_flash_mode") EXCEPT
                   !.guardFresh = TRUE, !.guardMod = reg["MOD_CTRL0"],
                   !.guardLut = reg["LUT_CTRL"],
                   !.nest = IF hist.nest = 1 THEN 2 ELSE 1,
                   !.nestMod = IF hist.nest = 1 THEN hist.nestMod ELSE reg["MOD_CTRL0"],
                   !.nestLut = IF hist.nest = 1 THEN hist.nestLut ELSE reg["LUT_CTRL"]]
    /\ CallTo("enter:read_mod_ctrl0", "framework:returned")
    /\ UNCHANGED <<reg, lut, rdFifo, wrFifo, running, priv, target, loc, bus>>

CallExitHook ==
    /\ pc = "idle"
    /\ target.exit_flash_mode
    /\ hist' = [BeginCall("imxrt_exit_flash_mode") EXCEPT
                   !.guardClosing = (hist.guardFresh /\ hist.ep = "imxrt_enter_flash_mode"),
                   !.guardMod = hist.guardMod, !.guardLut = hist.guardLut,
                   !.nest = IF hist.nest \in {2, 3} THEN hist.nest + 1 ELSE 0,
                   !.nestMod = hist.nestMod, !.nestLut = hist.nestLut]
    /\ CallTo("exit:check_lut_state", "framework:returned")
    /\ UNCHANGED <<reg, lut, rdFifo, wrFifo, running, priv, target, loc, bus>>

(* imxrt_spi_read() and imxrt_spi_write() applied to any command, address   *)
(* and length, inside flash mode (they are static: nothing outside the     *)
(* driver calls them).                                                      *)
XferCommands ==
    {SPI_FLASH_CMD_WRITE_ENABLE, SPI_FLASH_CMD_READ_STATUS, SPI_FLASH_CMD_READ_SFDP,
     BitOr(IMXRT_SPI_FLASH_OPCODE_3B_ADDR,
           BitOr(IMXRT_SPI_FLASH_DATA_OUT, IMXRT_SPI_FLASH_OPCODE(2))),
     BitOr(IMXRT_SPI_FLASH_DATA_OUT, IMXRT_SPI_FLASH_OPCODE(1))}
XferAddresses == {4096}
XferLengths == {0, 1, 5, 128}
XferData(length) == [i \in 1..length |-> 165]

CallRead ==
    /\ pc = "idle"
    /\ hist.guardFresh
    /\ hist.xferCalls < MaxXferCalls
    /\ hist' = [BeginCall("imxrt_spi_read") EXCEPT
                   !.guardFresh = hist.guardFresh, !.guardMod = hist.guardMod,
                   !.guardLut = hist.guardLut, !.xferCalls = @ + 1]
    /\ \E command \in XferCommands, address \in XferAddresses, length \in XferLengths :
          loc' = [loc EXCEPT !.command = command, !.address = address, !.length = length]
    /\ CallTo("read:configure", "framework:returned")
    /\ UNCHANGED <<reg, lut, rdFifo, wrFifo, running, priv, target, bus>>

CallWrite ==
    /\ pc = "idle"
    /\ hist.guardFresh
    /\ hist.xferCalls < MaxXferCalls
    /\ hist' = [BeginCall("imxrt_spi_write") EXCEPT
                   !.guardFresh = hist.guardFresh, !.guardMod = hist.guardMod,
                   !.guardLut = hist.guardLut, !.xferCalls = @ + 1]
    /\ \E command \in XferCommands, address \in XferAddresses, length \in XferLengths :
          loc' = [loc EXCEPT !.command = command, !.address = address, !.length = length,
                             !.data = XferData(length)]
    /\ CallTo("write:configure", "framework:returned")
    /\ UNCHANGED <<reg, lut, rdFifo, wrFifo, running, priv, target, bus>>

FrameworkReturned ==
    /\ pc = "framework:returned"
    /\ hist' = [hist EXCEPT !.returned = TRUE, !.ret = TRUE]
    /\ loc' = NoLocals
    /\ Goto("idle")
    /\ UNCHANGED <<reg, lut, rdFifo, wrFifo, running, priv, target, bus>>

Probe ==
    \/ imxrt_probe
    \/ imxrt_add_flash
    \/ sfdp_read_parameters
    \/ imxrt_spi_read_sfdp

MassErase ==
    \/ imxrt_spi_mass_erase
    \/ imxrt_spi_read_status
    \/ imxrt_spi_run_command

Sequencer ==
    \/ imxrt_spi_configure_sequence
    \/ imxrt_spi_wait_complete
    \/ imxrt_spi_restore

Guard ==
    \/ imxrt_enter_flash_mode
    \/ imxrt_exit_flash_mode

(* The driver as the framework runs it.  Its only writes are the commands  *)
(* of imxrt_spi_run_command(), of length 0, so the data phase of           *)
(* imxrt_spi_write() is not part of it.                                    *)
Next ==
    \/ CallProbe
    \/ CallMassErase
    \/ Probe
    \/ MassErase
    \/ imxrt_spi_read
    \/ imxrt_spi_write
    \/ Sequencer
    \/ Guard
    \/ FlexSPI_Execute

Spec == Init /\ [][Next]_vars

(* The driver thread always takes its next step (the framework does not    *)
(* preempt a call it made), and a triggered controller finishes its        *)
(* command and raises command-done.  What the flash answers stays free:    *)
(* it may report busy for ever.                                            *)
InitLive ==
    /\ Init
    /\ target.part_id = IMXRT_PART_ID
    /\ reg["SRC_BOOT_MODE1"] = 0

DriverStep ==
    \/ Probe
    \/ MassErase
    \/ imxrt_spi_read
    \/ imxrt_spi_write
    \/ Sequencer
    \/ Guard

SpecLive ==
    /\ InitLive
    /\ [][Next]_vars
    /\ WF_vars(DriverStep)
    /\ WF_vars(FlexSPI_Execute)

(* The hooks called by the framework in any order on a target that the     *)
(* driver claims and that boots from serial NOR flash.  Between two calls  *)
(* the target may run, and its firmware may suspend the controller and     *)
(* lock or unlock the instruction table.                                   *)
InitHooks ==
    /\ Init
    /\ target.part_id = IMXRT_PART_ID
    /\ reg["SRC_BOOT_MODE1"] = 0
    /\ reg["INT"] = 0

FirmwareRuns ==
    /\ pc = "idle"
    /\ target.target_storage
    /\ \E m \in ModCtrlValues, l \in LutCtrlValues :
          /\ <<m, l>> # <<reg["MOD_CTRL0"], reg["LUT_CTRL"]>>
          /\ reg' = [reg EXCEPT !["MOD_CTRL0"] = m, !["LUT_CTRL"] = l]
    /\ hist' = [hist EXCEPT !.guardFresh = FALSE, !.guardClosing = FALSE, !.nest = 0]
    /\ UNCHANGED <<lut, rdFifo, wrFifo, running, priv, target, pc, stack, loc, bus>>

NextHooks ==
    \/ CallProbe
    \/ Probe
    \/ CallEnterHook
    \/ CallExitHook
    \/ FrameworkReturned
    \/ FirmwareRuns
    \/ imxrt_spi_read
    \/ Sequencer
    \/ Guard
    \/ FlexSPI_Execute

SpecHooks == InitHooks /\ [][NextHooks]_vars

(* The transfer primitives applied to any command, on a target that the    *)
(* driver claims and that boots from serial NOR flash.                     *)
InitXfer ==
    /\ Init
    /\ target.part_id = IMXRT_PART_ID
    /\ reg["SRC_BOOT_MODE1"] = 0
    /\ reg["MOD_CTRL0"] = IMXRT_FLEXSPI1_MOD_CTRL0_SUSPEND
    /\ reg["LUT_CTRL"] = IMXRT_FLEXSPI1_LUT_CTRL_LOCK
    /\ reg["INT"] = 0

NextXfer ==
    \/ CallProbe
    \/ Probe
    \/ CallEnterHook
    \/ CallExitHook
    \/ CallRead
    \/ CallWrite
    \/ FrameworkReturned
    \/ imxrt_spi_read
    \/ imxrt_spi_write
    \/ imxrt_spi_write_fifo
    \/ Sequencer
    \/ Guard
    \/ FlexSPI_Execute

SpecXfer == InitXfer /\ [][NextXfer]_vars

(* Guarded sessions of the framework with any transfer inside, on a target *)
(* whose interrupt flags are in any state at attach and whose firmware,    *)
(* running between two sessions, leaves flags pending.                     *)
InitSession ==
    /\ Init
    /\ target.part_id = IMXRT_PART_ID
    /\ reg["SRC_BOOT_MODE1"] = 0
    /\ reg["MOD_CTRL0"] = IMXRT_FLEXSPI1_MOD_CTRL0_SUSPEND
    /\ reg["LUT_CTRL"] = IMXRT_FLEXSPI1_LUT_CTRL_LOCK

FirmwareLeavesFlags ==
    /\ pc = "idle"
    /\ target.target_storage
    /\ ~hist.guardFresh
    /\ \E i \in IntValues :
          /\ i # reg["INT"]
          /\ reg' = [reg EXCEPT !["INT"] = i]
    /\ UNCHANGED <<lut, rdFifo, wrFifo, running, priv, target, pc, stack, loc, bus, hist>>

NextSession ==
    \/ CallProbe
    \/ Probe
    \/ CallEnterHook
    \/ CallExitHook
    \/ CallRead
    \/ CallWrite
    \/ FrameworkReturned
    \/ FirmwareLeavesFlags
    \/ imxrt_spi_read
    \/ imxrt_spi_write
    \/ imxrt_spi_write_fifo
    \/ Sequencer
    \/ Guard
    \/ FlexSPI_Execute

SpecSession == InitSession /\ [][NextSession]_vars

(***************************************************************************)
(* imxrt_spi_configure_sequence() applied to any command descriptor, any   *)
(* value of the CAS field of CTRL1 and any length.                         *)
(***************************************************************************)
SequenceOpcodes == {0, 5, 90, 159, 255}
SequenceDummies == {0, 8, 255}
SequenceCommands ==
    {BitOr(BitOr(mode, direction), BitOr(IMXRT_SPI_FLASH_DUMMY_LEN(d), IMXRT_SPI_FLASH_OPCODE(o))) :
        mode \in {IMXRT_SPI_FLASH_OPCODE_ONLY, IMXRT_SPI_FLASH_OPCODE_3B_ADDR},
        direction \in {IMXRT_SPI_FLASH_DATA_IN, IMXRT_SPI_FLASH_DATA_OUT},
        d \in SequenceDummies, o \in SequenceOpcodes}
SequenceColumnBits == 0..15
SequenceCtrl1Others == {0, 32769}
SequenceLengths == {0, 1, 128, 65536}

InitSequence ==
    /\ \E c \in SequenceColumnBits, o \in SequenceCtrl1Others :
          reg = [MOD_CTRL0 |-> 0, INT |-> 0, LUT_KEY |-> IMXRT_FLEXSPI1_LUT_KEY_VALUE,
                 LUT_CTRL |-> IMXRT_FLEXSPI1_LUT_CTRL_UNLOCK,
                 CTRL1 |-> Shl(c, IMXRT_FLEXSPI1_CTRL1_CAS_SHIFT) + o,
                 PRG_CTRL0 |-> 0, PRG_CTRL1 |-> 0,
                 PRG_READ_FIFO_CTRL |-> 0, PRG_WRITE_FIFO_CTRL |-> 0,
                 SRC_BOOT_MODE1 |-> 0]
    /\ lut \in FirmwareLuts
    /\ rdFifo = <<>>
    /\ wrFifo = <<>>
    /\ running = FALSE
    /\ priv = ZeroPriv
    /\ target = [part_id |-> IMXRT_PART_ID, driver |-> "i.MXRT10xx", inhibit_nrst |-> TRUE,
                 target_storage |-> TRUE, mass_erase |-> TRUE,
                 enter_flash_mode |-> TRUE, exit_flash_mode |-> TRUE,
                 ram |-> <<>>, flash |-> <<>>]
    /\ pc = "configure:read_lut"
    /\ stack = <<"sequence:returned">>
    /\ \E command \in SequenceCommands, length \in SequenceLengths :
          loc = [NoLocals EXCEPT !.command = command, !.address = 4096, !.length = length]
    /\ bus = [last |-> NoWrite, prev |-> NoWrite]
    /\ hist = [NoHist EXCEPT !.ep = "imxrt_spi_configure_sequence", !.returned = FALSE,
                             !.firmwareTable = lut]

SpecSequence == InitSequence /\ [][imxrt_spi_configure_sequence]_vars

(***************************************************************************)
(* imxrt_boot_source() applied to any boot configuration value.            *)
(***************************************************************************)
ClassifyInputs == (0..511) \cup {458752 + v : v \in 0..255} \cup {2147483392 + v : v \in 0..255}

InitClassify ==
    /\ reg = [MOD_CTRL0 |-> 0, INT |-> 0, LUT_KEY |-> IMXRT_FLEXSPI1_LUT_KEY_VALUE,
              LUT_CTRL |-> IMXRT_FLEXSPI1_LUT_CTRL_UNLOCK, CTRL1 |-> 0,
              PRG_CTRL0 |-> 0, PRG_CTRL1 |-> 0,
              PRG_READ_FIFO_CTRL |-> 0, PRG_WRITE_FIFO_CTRL |-> 0,
              SRC_BOOT_MODE1 |-> 0]
    /\ lut = EmptySequence
    /\ rdFifo = <<>>
    /\ wrFifo = <<>>
    /\ running = FALSE
    /\ priv = ZeroPriv
    /\ target = [part_id |-> IMXRT_PART_ID, driver |-> "", inhibit_nrst |-> FALSE,
                 target_storage |-> FALSE, mass_erase |-> FALSE,
                 enter_flash_mode |-> FALSE, exit_flash_mode |-> FALSE,
                 ram |-> <<>>, flash |-> <<>>]
    /\ pc = "classify:call"
    /\ stack = <<>>
    /\ \E boot_cfg \in ClassifyInputs : loc = [NoLocals EXCEPT !.tmp = boot_cfg]
    /\ bus = [last |-> NoWrite, prev |-> NoWrite]
    /\ hist = NoHist

Classify ==
    /\ pc = "classify:call"
    /\ priv' = [priv EXCEPT !.boot_source = imxrt_boot_source(loc.tmp)]
    /\ pc' = "classify:returned"
    /\ UNCHANGED <<reg, lut, rdFifo, wrFifo, running, target, stack, loc, bus, hist>>

SpecClassify == InitClassify /\ [][Classify]_vars

(***************************************************************************)
(* Properties.                                                             *)
(***************************************************************************)
Bit(x, n) == (x \div Pow2(n)) % 2 = 1
OpClass(insn) == insn.opcode_mode \div 4
Populated(table) == {i \in 1..LutSlots : table[i] # StopInsn}

(* C1: a completed imxrt_spi_read or imxrt_spi_write has captured the      *)
(* instruction table once and restored it once, and the table then equals  *)
(* its contents before the operation; whenever the driver is idle the      *)
(* table holds the firmware's original contents.                           *)
C1_TableRestored ==
    /\ pc \in {"read:return", "write:return"} =>
          /\ hist.programs = 1
          /\ hist.restores = 1
          /\ lut = hist.tableBefore
    /\ pc = "idle" => lut = hist.firmwareTable

C1_Witness ==
    /\ pc = "write:return"
    /\ hist.ep = "imxrt_spi_write"
    /\ loc.length = 5
    /\ Bit(loc.command, 16)
    /\ hist.restores = 1
    /\ lut = hist.firmwareTable

(* C2: imxrt_enter_flash_mode followed immediately by imxrt_exit_flash_mode *)
(* leaves the module-control register and the LUT lock-control register    *)
(* with their values from before the enter.                                *)
C2_EnterExitRestores ==
    (hist.ep = "imxrt_exit_flash_mode" /\ hist.guardClosing /\ hist.returned) =>
        /\ reg["MOD_CTRL0"] = hist.guardMod
        /\ reg["LUT_CTRL"] = hist.guardLut

C2_Witness ==
    /\ hist.ep = "imxrt_exit_flash_mode"
    /\ hist.guardClosing
    /\ hist.returned
    /\ Bit(hist.guardMod, 1)
    /\ hist.guardLut = 1
    /\ reg["MOD_CTRL0"] = hist.guardMod
    /\ reg["LUT_CTRL"] = 1

(* C3: in imxrt_spi_mass_erase, if the status read after Write Enable has   *)
(* the write-enabled bit clear, Chip Erase is never issued, Write Enable   *)
(* is issued once only, and the operation returns false after leaving      *)
(* flash mode with the module-control and lock registers as at entry.      *)
C3_MassEraseAbort ==
    (hist.ep = "imxrt_spi_mass_erase" /\ hist.firstStatus # -1
        /\ ~Bit(hist.firstStatus, 1)) =>
        /\ hist.ceIssued = 0
        /\ hist.weIssued = 1
        /\ hist.returned =>
              /\ hist.ret = FALSE
              /\ hist.enters = 1
              /\ hist.exits = 1
              /\ reg["MOD_CTRL0"] = hist.entryMod
              /\ reg["LUT_CTRL"] = hist.entryLut

C3_Witness ==
    /\ hist.ep = "imxrt_spi_mass_erase"
    /\ hist.returned
    /\ hist.firstStatus = 1
    /\ hist.ret = FALSE
    /\ Bit(hist.entryMod, 1)
    /\ hist.entryLut = 1
    /\ reg["LUT_CTRL"] = 1

(* C4: imxrt_spi_mass_erase returns true only after Chip Erase was issued   *)
(* following a status read with the write-enabled bit set and a later      *)
(* status read with the busy bit clear; every return has seen one enter    *)
(* and one exit, the last remote write being that of exit; and the failed  *)
(* write-enable check is the only return before the busy poll.             *)
C4_MassErasePaths ==
    (hist.ep = "imxrt_spi_mass_erase" /\ hist.returned) =>
        /\ hist.enters = 1
        /\ hist.exits = 1
        /\ bus.last = <<"MOD_CTRL0", hist.entryMod>>
        /\ hist.ret =>
              /\ hist.ceIssued = 1
              /\ hist.statusAtCE # -1
              /\ Bit(hist.statusAtCE, 1)
              /\ hist.polled
              /\ ~Bit(hist.lastStatus, 0)
        /\ ~hist.ret =>
              /\ hist.ceIssued = 0
              /\ ~hist.polled
              /\ ~Bit(hist.firstStatus, 1)
        /\ ~hist.polled => ~hist.ret

C4_Witness ==
    /\ hist.ep = "imxrt_spi_mass_erase"
    /\ hist.returned
    /\ hist.ret
    /\ hist.statusAtCE = 3
    /\ hist.lastStatus = 2
    /\ hist.polled

(* C5: imxrt_boot_source returns a boot source for every boot              *)
(* configuration value, decided by bits [7:4] alone: 0 is serial NOR, 1    *)
(* parallel NOR, 2-3 SLC NAND, 4-7 SD card, 8-11 eMMC and 12-15 (bits 7    *)
(* and 6 both set) serial NAND.                                            *)
C5_Decode(v) ==
    LET n == (v \div 16) % 16
    IN  CASE n = 0 -> "boot_spi_flash_nor"
          [] n = 1 -> "boot_parallel_nor"
          [] n \in 2..3 -> "boot_slc_nand"
          [] n \in 4..7 -> "boot_sd_card"
          [] n \in 8..11 -> "boot_emmc"
          [] OTHER -> "boot_spi_flash_nand"

C5_ClassifierTotal ==
    pc = "classify:returned" =>
        /\ priv.boot_source \in imxrt_boot_src_e
        /\ priv.boot_source = C5_Decode(loc.tmp)
        /\ (priv.boot_source = "boot_spi_flash_nand") <=> (Bit(loc.tmp, 7) /\ Bit(loc.tmp, 6))
        /\ loc.tmp = 0 => priv.boot_source = "boot_spi_flash_nor"
        /\ loc.tmp = 64 => priv.boot_source = "boot_sd_card"
        /\ loc.tmp = 128 => priv.boot_source = "boot_emmc"
        /\ loc.tmp = 32 => priv.boot_source = "boot_slc_nand"
        /\ loc.tmp = 16 => priv.boot_source = "boot_parallel_nor"
        /\ loc.tmp = 192 => priv.boot_source = "boot_spi_flash_nand"

C5_Witness ==
    /\ pc = "classify:returned"
    /\ loc.tmp = 458757
    /\ priv.boot_source = "boot_spi_flash_nor"

(* C6: the program imxrt_spi_configure_sequence writes has exactly the two *)
(* populated slots Command, DummyCycles for an opcode-only command of      *)
(* length 0, and exactly the four populated slots Command, RowAddress,     *)
(* DummyCycles, Read-or-Write for a 3-byte-addressed command of nonzero    *)
(* length when the column-address bit count is 0; the other slots are 0.   *)
C6_ProgramWritten == pc \in {"configure:write_prg_ctrl0", "configure:write_prg_ctrl1"}

C6_ProgramCapacity ==
    C6_ProgramWritten =>
        /\ (~Bit(loc.command, 16) /\ loc.length = 0) =>
              /\ Populated(lut) = 1..2
              /\ OpClass(lut[1]) = 1
              /\ OpClass(lut[2]) = 12
        /\ (Bit(loc.command, 16) /\ (reg["CTRL1"] \div 2048) % 16 = 0 /\ loc.length > 0) =>
              /\ Populated(lut) = 1..4
              /\ OpClass(lut[1]) = 1
              /\ OpClass(lut[2]) = 2
              /\ OpClass(lut[3]) = 12
              /\ OpClass(lut[4]) = (IF Bit(loc.command, 17) THEN 8 ELSE 9)

C6_Witness ==
    /\ pc = "configure:write_prg_ctrl0"
    /\ Bit(loc.command, 16)
    /\ Bit(loc.command, 17)
    /\ reg["CTRL1"] = 0
    /\ loc.length = 5
    /\ Populated(lut) = 1..4
    /\ OpClass(lut[4]) = 8

(* C7 as stated: with a serial NOR/NAND boot source, probe requests a flash *)
(* region whenever the three JEDEC ID bytes are not all 0xff, leaves the   *)
(* region unregistered only when all three are 0xff, and returns true.     *)
C7_AllErased(id) == id[1] = 255 /\ id[2] = 255 /\ id[3] = 255
C7_NoneErased(id) == id[1] # 255 /\ id[2] # 255 /\ id[3] # 255
C7_ProbeRead == hist.ep = "imxrt_probe" /\ hist.returned /\ hist.flash_id # <<>>

C7_Original ==
    C7_ProbeRead =>
        /\ hist.ret
        /\ hist.requested <=> ~C7_AllErased(hist.flash_id)

(* C7 amended: probe requests a flash region exactly when none of the      *)
(* three JEDEC ID bytes is 0xff; when any of them is 0xff no region is     *)
(* requested or registered; in either case probe returns true.             *)
C7_RegionRequested ==
    C7_ProbeRead =>
        /\ hist.ret
        /\ hist.requested <=> C7_NoneErased(hist.flash_id)
        /\ ~C7_NoneErased(hist.flash_id) => target.flash = <<>>

C7_Witness ==
    /\ C7_ProbeRead
    /\ hist.flash_id = <<239, 255, 22>>
    /\ ~hist.requested
    /\ target.flash = <<>>
    /\ hist.ret

(* C8: for every JEDEC ID probe accepts, the fallback capacity passed to   *)
(* imxrt_add_flash is 2 to the power of the capacity byte.                 *)
C8_IsPowerOfTwo(x, n) == n < WordBits /\ x = Pow2(n)

C8_FallbackCapacity ==
    hist.requested => C8_IsPowerOfTwo(hist.fallback, hist.flash_id[3])

(* C9: imxrt_add_flash registers the geometry {256, 4096, fallback          *)
(* capacity, 0x20} when SFDP discovery fails and the discovered geometry   *)
(* when it succeeds, as a region at 0x60000000 whose length is the         *)
(* capacity and whose block size is the sector size.                       *)
C9_Registered ==
    /\ pc = "probe:exit_flash_mode"
    /\ hist.requested
    /\ Len(target.flash) = 1

C9_GeometryFallback ==
    C9_Registered =>
        /\ hist.sfdp = "failed" =>
              loc.spi_parameters =
                  [page_size |-> 256, sector_size |-> 4096,
                   capacity |-> hist.fallback, sector_erase_opcode |-> 32]
        /\ hist.sfdp = "ok" => loc.spi_parameters = hist.sfdp_params
        /\ hist.sfdp \in {"failed", "ok"}
        /\ target.flash[1].start = 1610612736
        /\ target.flash[1].length = loc.spi_parameters.capacity
        /\ target.flash[1].blocksize = loc.spi_parameters.sector_size

C9_Witness ==
    /\ C9_Registered
    /\ hist.sfdp = "failed"
    /\ hist.fallback = 8388608
    /\ hist.sfdp_params.capacity = 33554432
    /\ target.flash[1].length = 8388608
    /\ target.flash[1].blocksize = 4096

(* C10: in imxrt_probe and imxrt_spi_mass_erase every program/run/restore   *)
(* cycle runs between an enter and its exit, an enter never starts before  *)
(* the previous one was matched by an exit, and an entry point that        *)
(* entered has exited when it returns.                                     *)
C10_TransferLabels ==
    {"read:configure", "read:wait_complete", "read:read_fifo", "read:write_int",
     "read:return", "write:configure", "write:check_length", "write:write_fifo",
     "write:write_int",
     "write:wait_complete", "write:restore", "write:return",
     "configure:read_lut", "configure:read_ctrl1", "configure:write_lut",
     "configure:write_prg_ctrl0", "configure:write_prg_ctrl1",
     "wait:write_prg_cmd", "wait:poll_int", "wait:write_int", "restore:write_lut"}
C10_EnterLabels ==
    {"enter:read_mod_ctrl0", "enter:write_mod_ctrl0", "enter:read_int",
     "enter:write_int", "enter:write_read_fifo_ctrl", "enter:write_write_fifo_ctrl",
     "enter:read_lut_ctrl", "enter:write_lut_key", "enter:write_lut_ctrl",
     "enter:return"}
C10_ExitLabels ==
    {"exit:check_lut_state", "exit:write_lut_key", "exit:write_lut_ctrl",
     "exit:write_mod_ctrl0"}

C10_SessionDiscipline ==
    /\ hist.ep \in {"none", "imxrt_probe", "imxrt_spi_mass_erase"}
    /\ pc \in C10_TransferLabels => hist.enters = hist.exits + 1
    /\ pc \in C10_EnterLabels => hist.enters = hist.exits
    /\ pc \in C10_ExitLabels => hist.enters = hist.exits + 1
    /\ hist.returned => hist.enters = hist.exits
    /\ hist.exits <= hist.enters

C10_Witness ==
    /\ pc = "restore:write_lut"
    /\ hist.ep = "imxrt_probe"
    /\ loc.command = SPI_FLASH_CMD_READ_SFDP
    /\ hist.enters = 1
    /\ hist.exits = 0

(* C11: when the part identity is not 0x88c, imxrt_probe returns false     *)
(* without reaching any remote memory read or write, without allocating    *)
(* the session and without changing any field of the target handle.        *)
C11_NoSideEffects ==
    target.part_id # 2188 =>
        /\ pc \in {"idle", "probe:check_part_id"}
        /\ hist.ep \in {"none", "imxrt_probe"}
        /\ hist.returned => ~hist.ret
        /\ bus = [last |-> NoWrite, prev |-> NoWrite]
        /\ ~running
        /\ priv = ZeroPriv
        /\ lut = hist.firmwareTable
        /\ hist.ep = "imxrt_probe" =>
              /\ reg["MOD_CTRL0"] = hist.entryMod
              /\ reg["LUT_CTRL"] = hist.entryLut
        /\ target = [part_id |-> target.part_id, driver |-> "", inhibit_nrst |-> FALSE,
                     target_storage |-> FALSE, mass_erase |-> FALSE,
                     enter_flash_mode |-> FALSE, exit_flash_mode |-> FALSE,
                     ram |-> <<>>, flash |-> <<>>]

C11_Witness ==
    /\ target.part_id = 1041
    /\ hist.ep = "imxrt_probe"
    /\ hist.returned
    /\ ~hist.ret
    /\ pc = "idle"
    /\ target.ram = <<>>

(* C12: on an identity match with a boot source other than serial NOR or  *)
(* serial NAND, imxrt_probe registers the two internal RAM regions and     *)
(* returns true, reaches no access to a flash-controller register, never   *)
(* enters flash mode and installs none of the three hooks; a hook is       *)
(* installed or the controller written only for serial NOR or serial NAND. *)
C12_BootNibble == (reg["SRC_BOOT_MODE1"] \div 16) % 16
C12_SerialBoot == C12_BootNibble = 0 \/ C12_BootNibble >= 12
C12_ControllerUntouched ==
    /\ bus = [last |-> NoWrite, prev |-> NoWrite]
    /\ ~running
    /\ hist.enters = 0
    /\ hist.exits = 0
    /\ ~target.mass_erase
    /\ ~target.enter_flash_mode
    /\ ~target.exit_flash_mode

C13_Perturbed == Bit(hist.nestMod, 1) \/ hist.nestLut # 2

C13_NestingLosesSnapshot ==
    /\ (hist.nest = 2 /\ hist.returned) =>
          /\ priv.flexspi_module_state = hist.nestMod - (IF Bit(hist.nestMod, 1) THEN 2 ELSE 0)
          /\ priv.flexspi_lut_state = 2
    /\ (hist.nest = 4 /\ hist.returned /\ C13_Perturbed) =>
          /\ reg["MOD_CTRL0"] = hist.nestMod - (IF Bit(hist.nestMod, 1) THEN 2 ELSE 0)
          /\ reg["LUT_CTRL"] = 2
          /\ ~(reg["MOD_CTRL0"] = hist.nestMod /\ reg["LUT_CTRL"] = hist.nestLut)

C13_Witness ==
    /\ hist.nest = 4
    /\ hist.returned
    /\ hist.ep = "imxrt_exit_flash_mode"
    /\ Bit(hist.nestMod, 1)
    /\ hist.nestLut = 1
    /\ reg["LUT_CTRL"] = 2
    /\ ~Bit(reg["MOD_CTRL0"], 1)

(* C14: for every command descriptor, column-address bit count and length *)
(* the program imxrt_spi_configure_sequence writes is, in this order:      *)
(* Command with the opcode; for 3-byte addressing RowAddress with operand  *)
(* 24 - columnBits, then ColumnAddress with operand columnBits only when   *)
(* columnBits is not 0; DummyCycles with the dummy count, also when it is  *)
(* 0; Read or Write by direction only when length > 0; every later slot    *)
(* is zero, and every instruction has the serial mode tag.                 *)
C14_ColumnBits == (reg["CTRL1"] \div 2048) % 16

C14_Expected(command, columnBits, length) ==
    <<[op |-> 1, operand |-> command % 256]>>
    \o (IF Bit(command, 16)
        THEN <<[op |-> 2, operand |-> 24 - columnBits]>>
             \o (IF columnBits # 0 THEN <<[op |-> 3, operand |-> columnBits]>> ELSE <<>>)
        ELSE <<>>)
    \o <<[op |-> 12, operand |-> (command \div 256) % 256]>>
    \o (IF length > 0
        THEN <<[op |-> IF Bit(command, 17) THEN 8 ELSE 9, operand |-> 0]>>
        ELSE <<>>)

C14_SequenceWritten ==
    pc \in {"configure:write_prg_ctrl0", "configure:write_prg_ctrl1", "sequence:returned"}

C14_ProgramOrder ==
    C14_SequenceWritten =>
        LET expected == C14_Expected(loc.command, C14_ColumnBits, loc.length)
        IN  \A i \in 1..8 :
               IF i <= Len(expected)
               THEN /\ lut[i].opcode_mode \div 4 = expected[i].op
                    /\ lut[i].opcode_mode % 4 = 0
                    /\ lut[i].value = expected[i].operand
               ELSE lut[i] = [value |-> 0, opcode_mode |-> 0]

C14_Witness ==
    /\ pc = "sequence:returned"
    /\ C14_ColumnBits = 15
    /\ loc.command = 131072 + 65536 + 255 * 256 + 90
    /\ loc.length = 128
    /\ lut[2] = [value |-> 9, opcode_mode |-> 8]
    /\ lut[3] = [value |-> 15, opcode_mode |-> 12]
    /\ lut[4] = [value |-> 255, opcode_mode |-> 48]
    /\ lut[5] = [value |-> 0, opcode_mode |-> 32]
    /\ lut[6] = [value |-> 0, opcode_mode |-> 0]

(* C15: for every command descriptor, every value 0..15 of the column-     *)
(* address bit count and every length, the slot index of                   *)
(* imxrt_spi_configure_sequence ends at most at 8, and the populated slots *)
(* of the program are exactly the slots below it, at most 8 of them.       *)
C15_SlotsWithinArray ==
    C14_SequenceWritten =>
        /\ hist.offset >= 2
        /\ hist.offset <= 8
        /\ Populated(lut) = 1..hist.offset
        /\ Cardinality(Populated(lut)) <= 8

C15_Witness ==
    /\ pc = "sequence:returned"
    /\ C14_ColumnBits = 1
    /\ loc.command = SPI_FLASH_CMD_READ_SFDP
    /\ loc.length = 1
    /\ hist.offset = 5
    /\ Cardinality(Populated(lut)) = 5

(* C16 as stated: there is a boot configuration value for which the five   *)
(* checks of imxrt_boot_source, evaluated in an order other than the       *)
(* source's, return a different boot source.                               *)
C16_Original ==
    pc = "classify:returned" =>
        \E boot_cfg \in ClassifyInputs, order \in BootCheckOrders :
            imxrt_boot_source_in_order(boot_cfg, order) # imxrt_boot_source(boot_cfg)

(* C16 amended: the five checks of imxrt_boot_source are pairwise          *)
(* disjoint, on the masked value the code tests and on the unmasked low    *)
(* byte alike, so for every boot configuration value every order of        *)
(* evaluation returns the boot source the source's order returns.          *)
C16_Holding(boot_src) == {i \in 1..5 : BootChecks(boot_src)[i].holds}

C16_OrderIndependent ==
    pc = "classify:returned" =>
        /\ imxrt_boot_source_in_order(loc.tmp, SourceOrder) = priv.boot_source
        /\ \A order \in BootCheckOrders :
              imxrt_boot_source_in_order(loc.tmp, order) = priv.boot_source
        /\ Cardinality(C16_Holding((loc.tmp \div 16) % 16 * 16)) <= 1
        /\ Cardinality(C16_Holding(loc.tmp % 256)) <= 1

C16_Witness ==
    /\ pc = "classify:returned"
    /\ loc.tmp = 112
    /\ priv.boot_source = "boot_sd_card"
    /\ imxrt_boot_source_in_order(112, [i \in 1..5 |-> 6 - i]) = "boot_sd_card"
    /\ C16_Holding(112) = {2}

(* C17: every write to the LUT lock-control register, by enter or by      *)
(* exit, directly follows a write of the key 0x5AF05AF0 to the LUT key     *)
(* register; and when the lock register read as unlocked at entry, enter   *)
(* returns and exit returns without a write to either register.            *)
C17_KeyWrite == <<"LUT_KEY", 1525701360>>
C17_LutRegisters == {"LUT_KEY", "LUT_CTRL"}
C17_AfterExit ==
    \/ pc \in {"probe:return", "mass_erase:return", "mass_erase:return_false"}
    \/ pc = "framework:returned" /\ hist.ep = "imxrt_exit_flash_mode"

C17_KeyBeforeLock ==
    /\ bus.last[1] = "LUT_CTRL" => bus.prev = C17_KeyWrite
    /\ pc \in {"enter:write_lut_ctrl", "exit:write_lut_ctrl"} => bus.last = C17_KeyWrite
    /\ pc = "enter:return" =>
          IF hist.lutAtEnter = 2
          THEN bus.last[1] = "PRG_WRITE_FIFO_CTRL"
          ELSE bus.last = <<"LUT_CTRL", 2>>
    /\ (C17_AfterExit /\ hist.exits > 0) =>
          /\ bus.last[1] = "MOD_CTRL0"
          /\ IF hist.lutAtEnter = 2
             THEN bus.prev[1] \notin C17_LutRegisters
             ELSE bus.prev = <<"LUT_CTRL", hist.lutAtEnter>>

C17_Witness ==
    /\ pc = "exit:write_mod_ctrl0"
    /\ hist.ep = "imxrt_exit_flash_mode"
    /\ hist.lutAtEnter = 1
    /\ reg["LUT_CTRL"] = 1
    /\ bus.last = <<"LUT_CTRL", 1>>
    /\ bus.prev = C17_KeyWrite

(* C18: imxrt_enter_flash_mode always returns true, and when it returns,   *)
(* for every initial controller state, the suspend bit of the module-      *)
(* control register is clear and its other bits are as before, the lock-   *)
(* control register is unlocked, and the snapshot holds the module-control *)
(* and lock values read before any write; enter writes the module-control  *)
(* register only if the suspend bit was set.                               *)
C18_EnterReturned ==
    \/ pc = "probe:read_jedec_id"
    \/ pc = "framework:returned" /\ hist.ep = "imxrt_enter_flash_mode"

C18_EnterPostcondition ==
    /\ C18_EnterReturned =>
          /\ hist.enterRet
          /\ ~Bit(reg["MOD_CTRL0"], 1)
          /\ reg["MOD_CTRL0"] = hist.entryMod - (IF Bit(hist.entryMod, 1) THEN 2 ELSE 0)
          /\ reg["LUT_CTRL"] = 2
          /\ priv.flexspi_module_state = hist.entryMod
          /\ priv.flexspi_lut_state = hist.entryLut
    /\ pc = "enter:write_mod_ctrl0" => Bit(hist.entryMod, 1)
    /\ (pc \in C10_EnterLabels /\ ~Bit(hist.entryMod, 1)) => reg["MOD_CTRL0"] = hist.entryMod

C18_Witness ==
    /\ pc = "framework:returned"
    /\ hist.ep = "imxrt_enter_flash_mode"
    /\ hist.entryMod = 2147418162
    /\ hist.entryLut = 0
    /\ reg["MOD_CTRL0"] = 2147418160
    /\ reg["LUT_CTRL"] = 2
    /\ priv.flexspi_lut_state = 0

(* C19: the register steps of a transfer occur in a fixed order.  A write  *)
(* captures the table, writes the program, the address register only for   *)
(* a 3-byte-addressed command and the length, then only if length > 0      *)
(* fills the write FIFO with the data zero-padded to a multiple of 4 bytes *)
(* and acknowledges write-FIFO-empty, then triggers, observes command-     *)
(* done, acknowledges it and restores the table.  A read captures, writes  *)
(* the program, triggers, observes command-done, acknowledges it, only     *)
(* then reads the read FIFO and acknowledges read-FIFO-full, and restores  *)
(* the table.                                                              *)
C19_Program(command) ==
    <<"capture", "program">>
    \o (IF Bit(command, 16) THEN <<"address">> ELSE <<>>)
    \o <<"length">>

C19_WriteSteps(command, length) ==
    C19_Program(command)
    \o (IF length > 0 THEN <<"fill", "ack_write_fifo_empty">> ELSE <<>>)
    \o <<"trigger", "done", "ack_done", "restore">>

C19_ReadSteps(command) ==
    C19_Program(command)
    \o <<"trigger", "done", "ack_done", "read_fifo", "ack_read_fifo_full", "restore">>

C19_IsPrefix(a, b) == Len(a) <= Len(b) /\ a = SubSeq(b, 1, Len(a))

C19_Padded(fifo, data, length) ==
    /\ Len(fifo) % 4 = 0
    /\ Len(fifo) >= length
    /\ Len(fifo) < length + 4
    /\ \A i \in 1..Len(fifo) : fifo[i] = (IF i <= length THEN data[i] ELSE 0)

C19_StepOrder ==
    /\ hist.xfer = "write" =>
          C19_IsPrefix(hist.steps, C19_WriteSteps(loc.command, loc.length))
    /\ pc = "write:return" => hist.steps = C19_WriteSteps(loc.command, loc.length)
    /\ hist.xfer = "read" => C19_IsPrefix(hist.steps, C19_ReadSteps(loc.command))
    /\ pc = "read:return" => hist.steps = C19_ReadSteps(loc.command)
    /\ pc = "write:write_int" =>
          /\ loc.length > 0
          /\ C19_Padded(wrFifo, loc.data, loc.length)
          /\ bus.last = <<"PRG_WRITE_FIFO", loc.length>>
    /\ (pc = "wait:write_prg_cmd" /\ hist.xfer = "write" /\ loc.length > 0) =>
          bus.last = <<"INT", 64>>
    /\ (pc = "restore:write_lut" /\ hist.xfer = "read") =>
          /\ bus.last = <<"INT", 32>>
          /\ bus.prev = <<"INT", 1>>
    /\ (pc = "restore:write_lut" /\ hist.xfer = "write") => bus.last = <<"INT", 1>>
    /\ pc = "write:write_fifo" => loc.length > 0
    /\ pc = "configure:write_prg_ctrl0" => Bit(loc.command, 16)

C19_Witness ==
    /\ pc = "write:return"
    /\ hist.ep = "imxrt_spi_write"
    /\ loc.command = 131072 + 65536 + 2
    /\ loc.length = 5
    /\ hist.steps = <<"capture", "program", "address", "length", "fill",
                      "ack_write_fifo_empty", "trigger", "done", "ack_done", "restore">>
    /\ reg["PRG_CTRL0"] = 4096

(* C20: a transfer terminates exactly when command-done appears after the *)
(* trigger.  With a controller that finishes the command it ran, every     *)
(* read and write that started completes with the table restored; while    *)
(* command-done is absent every step leaves the driver at the poll, not    *)
(* returned, the table holding the driver's program; and mass erase        *)
(* leaves its status poll only on a status with the busy bit clear.        *)
C20_Started == hist.xfer \in {"read", "write"}
C20_Completed == hist.xfer \in {"read_done", "write_done"} /\ lut = hist.tableBefore
C20_Done == Bit(reg["INT"], 0)

C20_Spinning ==
    pc = "wait:poll_int" =>
        /\ C20_Started
        /\ hist.restores = 0
        /\ ProgramOpcode(lut) = loc.command % 256
        /\ ~hist.returned
        /\ stack # <<>>

C20_StaysWithoutDone ==
    (pc = "wait:poll_int" /\ ~C20_Done) =>
        (pc' = "wait:poll_int" /\ lut' = lut /\ stack' = stack)

C20_LeavesPollOnDone ==
    (pc = "wait:poll_int" /\ pc' # "wait:poll_int") => C20_Done

C20_LeavesEraseOnIdle ==
    (pc = "mass_erase:check_busy" /\ pc' # "mass_erase:check_busy") =>
        IF Bit(loc.status, 0) THEN pc' = "mass_erase:poll_status"
        ELSE pc' = "exit:check_lut_state"

C20_Termination ==
    /\ []C20_Spinning
    /\ [][C20_StaysWithoutDone]_vars
    /\ [][C20_LeavesPollOnDone]_vars
    /\ [][C20_LeavesEraseOnIdle]_vars
    /\ C20_Started ~> C20_Completed

C20_Witness ==
    /\ pc = "write:return"
    /\ hist.ep = "imxrt_spi_mass_erase"
    /\ loc.command = SPI_FLASH_CMD_CHIP_ERASE
    /\ hist.steps = <<"capture", "program", "length", "trigger", "done", "ack_done",
                      "restore">>
    /\ ~C20_Done
    /\ lut = hist.tableBefore

(* C21: with the interrupt-status register write-1-to-clear, enter leaves  *)
(* no flag pending, command-done is clear and no command is running at     *)
(* every moment the driver triggers execution, each run returns with       *)
(* command-done acknowledged, and the poll ends only after the command the *)
(* run triggered has finished.                                             *)
C21_NoStaleCompletion ==
    /\ pc = "enter:write_read_fifo_ctrl" => reg["INT"] = 0
    /\ pc = "wait:write_prg_cmd" =>
          /\ ~Bit(reg["INT"], 0)
          /\ ~running
    /\ pc = "wait:write_int" =>
          /\ Bit(reg["INT"], 0)
          /\ ~running
    /\ pc \in {"read:read_fifo", "write:restore"} => ~Bit(reg["INT"], 0)
    /\ running => pc = "wait:poll_int"

C21_Witness ==
    /\ pc = "wait:write_prg_cmd"
    /\ hist.ep = "imxrt_spi_write"
    /\ hist.guardFresh
    /\ hist.intAtEnter = 97
    /\ loc.length = 5
    /\ reg["INT"] = 0

====
